---- MODULE Spec2Model ----
(***************************************************************************)
(* Neighbour Node backend: geo-proximity discovery, keyword search,        *)
(* read-through caching with prefix invalidation, lazy expiry of urgent    *)
(* needs and the Redis rate-limit counter.                                 *)
(*                                                                         *)
(* Representation.                                                         *)
(*   text        a sequence of one-character strings                       *)
(*   coordinate  an integer, in units of 0.00001 degree                    *)
(*   distance    an integer number of metres (haversine), or of tenths of  *)
(*               a kilometre (the chatbot's round(.., 1))                  *)
(*   radius      an integer number of metres                               *)
(*   time        an integer number of seconds                              *)
(*   Optional    <<>> is None / a missing key, <<v>> is the value v        *)
(***************************************************************************)
EXTENDS Integers, Sequences, FiniteSets, TLC

\* ------------------------------------------------------------------ bounds
MaxListings == 1
MaxUrgent == 1
MaxTicks == 1
MaxSearchDocs == 2
MaxRankedDocs == 6
MaxFeedDocs == 2
MaxRateNeeds == 7
MaxRequests == 2
MaxMessages == 2

\* ------------------------------------------------------ program constants
\* r = 6371 km: one degree of arc is 6371000 * pi / 180 = 111195 metres
MetresPerDegree == 111195
NoDistanceSortValue == 999
TopMatches == 5
ChatbotRadiusKm == 5
PhrasePoints == 10
TitlePoints == 3
DescriptionPoints == 2
CategoryPoints == 1
MinKeywordLen == 2
ListingsTTL == 120
UrgentTTL == 30
ChatbotTTL == 60
UrgentLifetimeHours == 2
UrgentRateLimit == 5
UrgentRateWindow == 3600
ListingsRateLimit == 10
ApiRateLimit == 100
MiddlewareWindow == 60

None == <<>>
Some(v) == <<v>>
IsNone(o) == o = <<>>
Val(o) == o[1]

\* -------------------------------------------------------------------- text
UpperCase == <<"A", "B", "C", "D", "E", "F", "G", "H", "I", "J", "K", "L", "M",
               "N", "O", "P", "Q", "R", "S", "T", "U", "V", "W", "X", "Y", "Z">>
LowerCase == <<"a", "b", "c", "d", "e", "f", "g", "h", "i", "j", "k", "l", "m",
               "n", "o", "p", "q", "r", "s", "t", "u", "v", "w", "x", "y", "z">>
DigitChars == <<"0", "1", "2", "3", "4", "5", "6", "7", "8", "9">>
Range(s) == {s[i] : i \in DOMAIN s}
Whitespace == {" ", "\t", "\n"}

\* re's \w: a letter, a digit or the underscore
IsWordChar(c) == c \in Range(UpperCase) \cup Range(LowerCase) \cup Range(DigitChars) \cup {"_"}

lower_char(c) ==
    IF c \in Range(UpperCase)
    THEN LowerCase[CHOOSE i \in DOMAIN UpperCase : UpperCase[i] = c]
    ELSE c

\* str.lower()
lower(s) == [i \in DOMAIN s |-> lower_char(s[i])]

\* str.strip()
strip(s) ==
    LET keep == {i \in DOMAIN s : s[i] \notin Whitespace}
    IN  IF keep = {} THEN <<>>
        ELSE LET first == CHOOSE i \in keep : \A j \in keep : i <= j
                 last == CHOOSE i \in keep : \A j \in keep : j <= i
             IN  SubSeq(s, first, last)

\* Python's  sub in s
contains(s, sub) ==
    \E i \in 0..(Len(s) - Len(sub)) : SubSeq(s, i + 1, i + Len(sub)) = sub

startswith(s, prefix) ==
    Len(prefix) <= Len(s) /\ SubSeq(s, 1, Len(prefix)) = prefix

\* re.findall(r'\w+', s): the maximal runs of word characters, left to right
RECURSIVE findall_from(_, _)
findall_from(s, i) ==
    IF i > Len(s) THEN <<>>
    ELSE IF ~IsWordChar(s[i]) THEN findall_from(s, i + 1)
    ELSE LET stops == {j \in i..Len(s) : ~IsWordChar(s[j])}
             end == IF stops = {} THEN Len(s) + 1
                    ELSE CHOOSE j \in stops : \A k \in stops : j <= k
         IN  <<SubSeq(s, i, end - 1)>> \o findall_from(s, end)

findall_words(s) == findall_from(s, 1)

stop_words ==
    { <<"t","h","e">>, <<"a">>, <<"a","n">>, <<"a","n","d">>,
      <<"o","r">>, <<"b","u","t">>, <<"i","n">>, <<"o","n">>,
      <<"a","t">>, <<"t","o">>, <<"f","o","r">>, <<"o","f">>,
      <<"w","i","t","h">>, <<"b","y">>, <<"i","s">>, <<"a","r","e">>,
      <<"w","a","s">>, <<"w","e","r","e">>, <<"d","o">>, <<"d","o","e","s">>,
      <<"d","i","d">>, <<"h","a","v","e">>, <<"h","a","s">>, <<"h","a","d">>,
      <<"i">>, <<"y","o","u">>, <<"h","e">>, <<"s","h","e">>,
      <<"i","t">>, <<"w","e">>, <<"t","h","e","y">>, <<"t","h","i","s">>,
      <<"t","h","a","t">>, <<"t","h","e","s","e">>, <<"t","h","o","s","e">> }

\* ----------------------------------------------------------------- numbers
Abs(x) == IF x < 0 THEN -x ELSE x

\* round(n / d) to the nearest integer, a tie to the even one (Python's round)
RoundHalfEven(n, d) ==
    LET q == n \div d
        rem == n % d
    IN  IF 2 * rem < d THEN q
        ELSE IF 2 * rem > d THEN q + 1
        ELSE IF q % 2 = 0 THEN q ELSE q + 1

RECURSIVE isqrt_search(_, _, _)
isqrt_search(n, lo, hi) ==
    IF lo >= hi THEN lo
    ELSE LET mid == (lo + hi + 1) \div 2
         IN  IF mid * mid <= n THEN isqrt_search(n, mid, hi)
             ELSE isqrt_search(n, lo, mid - 1)

\* floor of the square root
isqrt(n) == isqrt_search(n, 0, IF n < 46340 THEN n ELSE 46340)

RECURSIVE IntStr(_)
IntStr(n) == IF n < 10 THEN <<DigitChars[n + 1]>>
             ELSE IntStr(n \div 10) \o <<DigitChars[(n % 10) + 1]>>

\* f"{x:.4f}" of a coordinate: four decimals of a degree
Fmt4(x) ==
    LET r4 == RoundHalfEven(Abs(x), 10)
        frac == r4 % 10000
    IN  (IF x < 0 THEN <<"-">> ELSE <<>>)
        \o IntStr(r4 \div 10000) \o <<".">>
        \o <<DigitChars[(frac \div 1000) + 1], DigitChars[((frac \div 100) % 10) + 1],
             DigitChars[((frac \div 10) % 10) + 1], DigitChars[(frac % 10) + 1]>>

\* f"{radius_km}": repr of the float, "3.0", "2.5", "0.75"
FloatStr(metres) ==
    LET frac == metres % 1000
        digits == IF frac = 0 THEN <<"0">>
                  ELSE IF frac % 100 = 0 THEN <<DigitChars[(frac \div 100) + 1]>>
                  ELSE IF frac % 10 = 0
                       THEN <<DigitChars[(frac \div 100) + 1], DigitChars[((frac \div 10) % 10) + 1]>>
                  ELSE <<DigitChars[(frac \div 100) + 1], DigitChars[((frac \div 10) % 10) + 1],
                         DigitChars[(frac % 10) + 1]>>
    IN  IntStr(metres \div 1000) \o <<".">> \o digits

\* (variant) haversine with "dlat = lat2" for "dlat = lat2 - lat1"
haversine_no_dlat(lat1, lon1, lat2, lon2) ==
    LET dlon == lon2 - lon1
        dlat == lat2
        c == isqrt(dlat * dlat + dlon * dlon)
    IN  (c * MetresPerDegree) \div 100000

\* --------------------------------------------------------------------- geo
\* The great-circle distance in metres.  The points of the model lie within a
\* few kilometres of the equator, where cos(lat) = 1 and sin x = asin x = x to
\* the metre, so that c = sqrt(dlat^2 + dlon^2).
haversine(lat1, lon1, lat2, lon2) ==
    LET dlon == lon2 - lon1
        dlat == lat2 - lat1
        c == isqrt(dlat * dlat + dlon * dlon)
    IN  (c * MetresPerDegree) \div 100000

\* the copies of haversine in routes/listings.py and routes/urgent.py
haversine_listings(lat1, lon1, lat2, lon2) ==
    LET dlon == lon2 - lon1
        dlat == lat2 - lat1
        c == isqrt(dlat * dlat + dlon * dlon)
        r == MetresPerDegree
    IN  (c * r) \div 100000

haversine_urgent(lat1, lon1, lat2, lon2) ==
    LET dlon == lon2 - lon1
        dlat == lat2 - lat1
        c == isqrt(dlat * dlat + dlon * dlon)
        r == MetresPerDegree
    IN  (c * r) \div 100000

\* round(km, 1), in tenths of a kilometre
round1(metres) == RoundHalfEven(metres, 100)

\* ------------------------------------------------------------------- lists
\* a > b for two tuples of integers of the same length (Python's tuple order)
TupleGt(a, b) ==
    \E i \in DOMAIN a :
        /\ a[i] > b[i]
        /\ \A j \in 1..(i - 1) : a[j] = b[j]

\* list.sort(key=..., reverse=True) on a list of [k, v]: descending by k, and
\* stable (equal keys keep the order they came in)
insert_desc(sorted, x) ==
    LET n == Cardinality({i \in DOMAIN sorted : ~TupleGt(x.k, sorted[i].k)})
    IN  SubSeq(sorted, 1, n) \o <<x>> \o SubSeq(sorted, n + 1, Len(sorted))

RECURSIVE sort_reverse(_)
sort_reverse(s) ==
    IF s = <<>> THEN <<>>
    ELSE insert_desc(sort_reverse(SubSeq(s, 1, Len(s) - 1)), s[Len(s)])

Values(s) == [i \in DOMAIN s |-> s[i].v]

RECURSIVE SumSeq(_)
SumSeq(s) == IF s = <<>> THEN 0 ELSE s[1] + SumSeq(Tail(s))

Take(s, n) == SubSeq(s, 1, IF Len(s) < n THEN Len(s) ELSE n)


\* ------------------------------------------------------------------ search
\* query.lower().strip()
query_lower(query) == strip(lower(query))

\* (variant) the keyword list without the stop-word test
keywords_keep_stop_words(query) ==
    LET kws == SelectSeq(findall_words(query_lower(query)),
                         LAMBDA kw : Len(kw) > MinKeywordLen)
    IN  IF kws = <<>> THEN <<query_lower(query)>> ELSE kws

\* the keyword list of search_listings
keywords(query) ==
    LET kws == SelectSeq(findall_words(query_lower(query)),
                         LAMBDA kw : kw \notin stop_words /\ Len(kw) > MinKeywordLen)
    IN  IF kws = <<>> THEN <<query_lower(query)>> ELSE kws

\* (d.get("category") or "")
category_text(d) == IF IsNone(d.category) THEN <<>> ELSE Val(d.category)

\* (variant) the phrase test by equality instead of "in"
phrase_match_exact(query, d) ==
    \/ lower(d.title) = query_lower(query)
    \/ lower(d.description) = query_lower(query)

phrase_match(query, d) ==
    \/ contains(lower(d.title), query_lower(query))
    \/ contains(lower(d.description), query_lower(query))

\* (variant) the points of title and description exchanged
keyword_points_exchanged(kw, d) ==
      (IF contains(lower(d.title), kw) THEN DescriptionPoints ELSE 0)
    + (IF contains(lower(d.description), kw) THEN TitlePoints ELSE 0)
    + (IF contains(lower(category_text(d)), kw) THEN CategoryPoints ELSE 0)

keyword_points(kw, d) ==
      (IF contains(lower(d.title), kw) THEN TitlePoints ELSE 0)
    + (IF contains(lower(d.description), kw) THEN DescriptionPoints ELSE 0)
    + (IF contains(lower(category_text(d)), kw) THEN CategoryPoints ELSE 0)

score(query, d) ==
    LET kws == keywords(query)
    IN  (IF phrase_match(query, d) THEN PhrasePoints ELSE 0)
        + SumSeq([i \in DOMAIN kws |-> keyword_points(kws[i], d)])

\* Python's truth value of an optional float: None and 0.0 are false
Truthy(o) == ~IsNone(o) /\ Val(o) # 0

\* "if lat and lng and "lat" in d and "lng" in d"
geo_applies(lat, lng, d) ==
    Truthy(lat) /\ Truthy(lng) /\ ~IsNone(d.lat) /\ ~IsNone(d.lng)

\* item["distance_km"]: None, or the rounded distance in tenths of a km
distance_km(lat, lng, d) ==
    IF geo_applies(lat, lng, d)
    THEN Some(round1(haversine(Val(lat), Val(lng), Val(d.lat), Val(d.lng))))
    ELSE None

\* "if item["distance_km"] > radius_km: continue", radius_km in metres
beyond_radius(dist, radius_km) == ~IsNone(dist) /\ Val(dist) * 100 > radius_km

search_item(query, lat, lng, d) ==
    [id |-> d.id, title |-> d.title, distance_km |-> distance_km(lat, lng, d),
     relevance_score |-> score(query, d)]

\* x["distance_km"] or 999, in tenths of a kilometre
distance_or_999(x) ==
    IF IsNone(x.distance_km) \/ Val(x.distance_km) = 0
    THEN NoDistanceSortValue * 10
    ELSE Val(x.distance_km)

\* key=lambda x: (x["relevance_score"], -(x["distance_km"] or 999))
sort_key(x) == <<x.relevance_score, -distance_or_999(x)>>

active_docs(store) == SelectSeq(store, LAMBDA d : d.status = "active")

\* the matches list before it is sorted
search_matches(store, query, lat, lng, radius_km) ==
    LET docs == active_docs(store)
        items == [i \in DOMAIN docs |-> search_item(query, lat, lng, docs[i])]
    IN  SelectSeq(items, LAMBDA x : /\ x.relevance_score > 0
                                    /\ ~beyond_radius(x.distance_km, radius_km))

\* (variant) the cut before the sort: the first five matches streamed, ranked
search_listings_cut_first(store, query, lat, lng, radius_km) ==
    IF query_lower(query) = <<>> THEN <<>>
    ELSE LET matches == Take(search_matches(store, query, lat, lng, radius_km), TopMatches)
             keyed == [i \in DOMAIN matches |-> [k |-> sort_key(matches[i]), v |-> matches[i]]]
         IN  Values(sort_reverse(keyed))

search_listings(store, query, lat, lng, radius_km) ==
    IF query_lower(query) = <<>> THEN <<>>
    ELSE LET matches == search_matches(store, query, lat, lng, radius_km)
             keyed == [i \in DOMAIN matches |-> [k |-> sort_key(matches[i]), v |-> matches[i]]]
         IN  Take(Values(sort_reverse(keyed)), TopMatches)


\* ------------------------------------------------------------------- state
VARIABLES
    listings,       \* the "listings" collection, in stream (document id) order
    urgent_needs,   \* the "urgent_needs" collection, in stream order
    redis_client,   \* redis_client.py's global: "None" or "client"
    redis_data,     \* the Redis keyspace: key -> [val, exp]
    redis_up,       \* whether the Redis server answers
    now,            \* the wall clock, in seconds
    ticks,          \* how many times the clock has advanced
    resp,           \* the last request and its response
    subdocs,        \* the sub-collections (reactions, messages) of the documents,
                    \* in stream order
    inflight        \* the requests being served call by call: worker -> position

vars == <<listings, urgent_needs, redis_client, redis_data, redis_up, now, ticks, resp,
          subdocs, inflight>>

Users == {"u1", "u2"}

\* the workers that serve requests call by call, and a worker between requests
Workers == {1, 2}
Idle == [op |-> "idle", pc |-> "idle", n |-> 0]
NoRequests == [w \in Workers |-> Idle]

\* worker w takes up a request (its n-th), moves on to the next call of the
\* request with what it holds in its local variables, or has answered
Begin(w, op, pc, req, local) ==
    [inflight EXCEPT ![w] = [op |-> op, pc |-> pc, n |-> @.n + 1, req |-> req, local |-> local]]
Goto(w, pc, local) == [inflight EXCEPT ![w].pc = pc, ![w].local = local]
Return(w) == [inflight EXCEPT ![w] = [Idle EXCEPT !.n = inflight[w].n]]
At(w, op, pc) == inflight[w].op = op /\ inflight[w].pc = pc

\* ------------------------------------------------------------------- Redis
\* A Redis handle R = [client, data] is threaded through the calls of one
\* request; every operator returns the handle after the call and its result.
EmptyMap == [k \in {} |-> 0]
Put(f, k, v) == [x \in (DOMAIN f) \cup {k} |-> IF x = k THEN v ELSE f[x]]
Drop(f, ks) == [x \in (DOMAIN f) \ ks |-> f[x]]

\* keys whose expiry has passed are gone
Live(data, t) == Drop(data, {k \in DOMAIN data : ~IsNone(data[k].exp) /\ Val(data[k].exp) <= t})

\* get_redis(): connects (and pings) only while the global is None
get_redis(R) ==
    IF R.client = "None"
    THEN IF redis_up THEN [R |-> [R EXCEPT !.client = "client"], ret |-> "client"]
         ELSE [R |-> R, ret |-> "None"]
    ELSE [R |-> R, ret |-> "client"]

\* a command on the client raises when the server does not answer
Raises == ~redis_up

cache_get(R, key) ==
    LET g == get_redis(R)
    IN  IF g.ret = "None" THEN [R |-> g.R, ret |-> None]
        ELSE IF Raises THEN [R |-> g.R, ret |-> None]
        ELSE IF key \in DOMAIN g.R.data THEN [R |-> g.R, ret |-> Some(g.R.data[key].val)]
        ELSE [R |-> g.R, ret |-> None]

\* (variant) r.setex with the default expiry of the signature, 300 seconds,
\* whatever the caller passes
cache_set_default_expiry(R, key, value, expire_seconds) ==
    LET g == get_redis(R)
    IN  IF g.ret = "None" THEN [R |-> g.R, ret |-> FALSE]
        ELSE IF Raises THEN [R |-> g.R, ret |-> FALSE]
        ELSE [R |-> [g.R EXCEPT !.data = Put(@, key, [val |-> value, exp |-> Some(now + 300)])],
              ret |-> TRUE]

\* (variant) r.set without an expiry: the entry stays until it is deleted
cache_set_no_expiry(R, key, value, expire_seconds) ==
    LET g == get_redis(R)
    IN  IF g.ret = "None" THEN [R |-> g.R, ret |-> FALSE]
        ELSE IF Raises THEN [R |-> g.R, ret |-> FALSE]
        ELSE [R |-> [g.R EXCEPT !.data = Put(@, key, [val |-> value, exp |-> None])],
              ret |-> TRUE]

cache_set(R, key, value, expire_seconds) ==
    LET g == get_redis(R)
    IN  IF g.ret = "None" THEN [R |-> g.R, ret |-> FALSE]
        ELSE IF Raises THEN [R |-> g.R, ret |-> FALSE]
        ELSE [R |-> [g.R EXCEPT !.data = Put(@, key, [val |-> value, exp |-> Some(now + expire_seconds)])],
              ret |-> TRUE]

\* (variant) r.delete(pattern): the key named by the pattern itself is deleted
cache_delete_pattern_literal(R, prefix) ==
    LET g == get_redis(R)
        keys == {k \in DOMAIN g.R.data : k = prefix \o <<"*">>}
    IN  IF g.ret = "None" THEN [R |-> g.R, ret |-> 0]
        ELSE IF Raises THEN [R |-> g.R, ret |-> 0]
        ELSE [R |-> [g.R EXCEPT !.data = Drop(@, keys)], ret |-> Cardinality(keys)]

\* r.keys("<prefix>*") then r.delete(*keys)
cache_delete_pattern(R, prefix) ==
    LET g == get_redis(R)
        keys == {k \in DOMAIN g.R.data : startswith(k, prefix)}
    IN  IF g.ret = "None" THEN [R |-> g.R, ret |-> 0]
        ELSE IF Raises THEN [R |-> g.R, ret |-> 0]
        ELSE [R |-> [g.R EXCEPT !.data = Drop(@, keys)], ret |-> Cardinality(keys)]

\* (variant) rate_limit failing closed: "return False" in the except branch
\* and when there is no client
rate_limit_fail_closed(R, key, limit, window_seconds) ==
    LET g == get_redis(R)
        current == IF key \in DOMAIN g.R.data THEN g.R.data[key].val + 1 ELSE 1
        exp == IF current = 1 THEN Some(now + window_seconds) ELSE g.R.data[key].exp
    IN  IF g.ret = "None" THEN [R |-> g.R, ret |-> FALSE]
        ELSE IF Raises THEN [R |-> g.R, ret |-> FALSE]
        ELSE [R |-> [g.R EXCEPT !.data = Put(@, key, [val |-> current, exp |-> exp])],
              ret |-> current <= limit]

\* r.incr(key); r.expire(key, window) on the first increment
rate_limit(R, key, limit, window_seconds) ==
    LET g == get_redis(R)
        current == IF key \in DOMAIN g.R.data THEN g.R.data[key].val + 1 ELSE 1
        exp == IF current = 1 THEN Some(now + window_seconds) ELSE g.R.data[key].exp
    IN  IF g.ret = "None" THEN [R |-> g.R, ret |-> TRUE]
        ELSE IF Raises THEN [R |-> g.R, ret |-> TRUE]
        ELSE [R |-> [g.R EXCEPT !.data = Put(@, key, [val |-> current, exp |-> exp])],
              ret |-> current <= limit]

Redis == [client |-> redis_client, data |-> redis_data]

\* -------------------------------------------------------------- cache keys
ListingsPrefix == <<"l", "i", "s", "t", "i", "n", "g", "s", ":">>
UrgentPrefix == <<"u", "r", "g", "e", "n", "t", "_", "n", "e", "a", "r", "b", "y", ":">>
ChatbotPrefix == <<"c", "h", "a", "t", "b", "o", "t", ":">>
UrgentRatePrefix == <<"u", "r", "g", "e", "n", "t", "_", "r", "a", "t", "e", "_",
                      "l", "i", "m", "i", "t", ":">>
LatPart(lat) == <<"l", "a", "t", "_">> \o Fmt4(lat)
LngPart(lng) == <<":", "l", "n", "g", "_">> \o Fmt4(lng)
RadiusPart(radius_km) == <<":", "r", "a", "d", "i", "u", "s", "_">> \o FloatStr(radius_km)

\* f"listings:lat_{lat:.4f}:lng_{lng:.4f}:radius_{radius_km}"
listings_cache_key(lat, lng, radius_km) ==
    ListingsPrefix \o LatPart(lat) \o LngPart(lng) \o RadiusPart(radius_km)

\* f"urgent_nearby:lat_{lat:.4f}:lng_{lng:.4f}:radius_{radius_km}"
urgent_cache_key(lat, lng, radius_km) ==
    UrgentPrefix \o LatPart(lat) \o LngPart(lng) \o RadiusPart(radius_km)

\* f"chatbot:{query}" and, if payload.lat and payload.lng, the coordinates
chatbot_cache_key(payload) ==
    ChatbotPrefix \o query_lower(payload.query)
    \o (IF Truthy(payload.lat) /\ Truthy(payload.lng)
        THEN <<":">> \o LatPart(Val(payload.lat)) \o LngPart(Val(payload.lng))
        ELSE <<>>)

\* f"urgent_rate_limit:{uid}"
UidText(uid) == IF uid = "u1" THEN <<"u", "1">> ELSE <<"u", "2">>
urgent_rate_key(uid) == UrgentRatePrefix \o UidText(uid)


\* ------------------------------------------------------------------ inputs
T_FreshMilk == <<"F", "r", "e", "s", "h", " ", "M", "i", "l", "k", " ", "f", "o", "r", " ", "s", "a", "l", "e">>
T_Tomato == <<"T", "o", "m", "a", "t", "o">>
T_Goat == <<"G", "o", "a", "t">>
T_GoatMilk == <<"G", "o", "a", "t", " ", "m", "i", "l", "k">>
T_Milk == <<"M", "i", "l", "k">>
T_Bus0010 == <<"B", "u", "s", " ", "0", "0", "1", "0">>
D_2Liters == <<"2", " ", "l", "i", "t", "e", "r", "s">>
D_NeedMilkNow == <<"n", "e", "e", "d", " ", "m", "i", "l", "k", " ", "n", "o", "w">>
D_Fresh == <<"f", "r", "e", "s", "h">>
D_Sold == <<"s", "o", "l", "d">>
C_Dairy == <<"d", "a", "i", "r", "y">>
C_Milk == <<"m", "i", "l", "k">>
Q_NeedMilk == <<"n", "e", "e", "d", " ", "m", "i", "l", "k">>
Q_Milk == <<" ", "M", "i", "l", "k", " ">>
Q_TheMilk == <<"t", "h", "e", " ", "m", "i", "l", "k">>
Q_To == <<"t", "o">>
Q_Empty == <<>>
Q_Blank == <<" ", " ">>
Q_KeyLike == <<":", "l", "a", "t", "_", "0", ".", "0", "0", "1", "0",
               ":", "l", "n", "g", "_", "0", ".", "0", "0", "1", "0">>

\* The query centre (0.0010, 0.0010) and points 0 m, 2000 m, 3999 m and 5040 m
\* east of it.
Centre == [lat |-> 100, lng |-> 100]
East0km == [lat |-> 100, lng |-> 100]
East2km == [lat |-> 100, lng |-> 1899]
East4km == [lat |-> 100, lng |-> 3697]
East5km == [lat |-> 100, lng |-> 4633]
\* 8 km east of the centre, and the point of the equator south of the centre
East8km == [lat |-> 100, lng |-> 7295]
Equator == [lat |-> 0, lng |-> 100]

ListingAt(title, description, category, point) ==
    [title |-> title, description |-> description, category |-> category,
     lat |-> Some(point.lat), lng |-> Some(point.lng)]

\* what POST /listings is called with
ListingPayloads ==
    { ListingAt(T_FreshMilk, D_2Liters, Some(C_Dairy), East0km),
      ListingAt(T_Bus0010, <<>>, None, East4km) }

ChatbotListings ==
    { ListingAt(T_FreshMilk, D_2Liters, Some(C_Dairy), East5km),
      ListingAt(T_FreshMilk, D_2Liters, Some(C_Dairy), East8km),
      ListingAt(T_Bus0010, <<>>, None, East4km) }

FailOpenListings ==
    { ListingAt(T_FreshMilk, D_2Liters, Some(C_Dairy), East0km),
      ListingAt(T_FreshMilk, D_2Liters, Some(C_Dairy), East5km) }

UpdatePayloads ==
    { [status |-> None, description |-> None],
      [status |-> None, description |-> Some(<<>>)],
      [status |-> Some("reserved"), description |-> None],
      [status |-> None, description |-> Some(D_Sold)] }

UrgentPayloads ==
    { [lat |-> Some(East0km.lat), lng |-> Some(East0km.lng)],
      [lat |-> Some(East4km.lat), lng |-> Some(East4km.lng)] }

NearbyQueries == { [lat |-> Centre.lat, lng |-> Centre.lng, radius_km |-> 3000] }

ChatbotPayloads ==
    { [query |-> Q_NeedMilk, lat |-> Some(Centre.lat), lng |-> Some(Centre.lng)],
      [query |-> Q_Blank, lat |-> Some(Centre.lat), lng |-> Some(Centre.lng)],
      [query |-> Q_KeyLike, lat |-> None, lng |-> None] }

\* a query sent from latitude 0.0
EquatorPayloads == { [query |-> Q_NeedMilk, lat |-> Some(Equator.lat), lng |-> Some(Equator.lng)] }

Creators == {"u1"}

\* clock steps: past the urgent TTL and past the two hours an urgent need
\* lives; past the chatbot TTL; past the listings TTL
UrgentTicks == {40, 7240}
ChatbotTicks == {70}
ListingTicks == {130}
\* within the three lifetimes, and past all of them
ReadTicks == {20, 130}

\* the stores search_listings is applied to
Stored(id, payload) ==
    [id |-> id, owner_uid |-> "u1", status |-> "active", title |-> payload.title,
     description |-> payload.description, category |-> payload.category,
     lat |-> payload.lat, lng |-> payload.lng, created_at |-> 0]

\* Document 5 is one that has no "lat" and no "lng" field: POST /listings
\* writes none such, the collection may hold one written by another client of
\* the database, and the scans provide for it.  Document 6 is document 4 with
\* the word " milk" appended to its title.
WithoutCoordinates(payload) == [payload EXCEPT !.lat = None, !.lng = None]

RankedDocs ==
    << Stored(1, ListingAt(T_FreshMilk, D_2Liters, Some(C_Dairy), East0km)),
       Stored(2, ListingAt(T_FreshMilk, D_2Liters, Some(C_Dairy), East2km)),
       Stored(3, ListingAt(T_Tomato, D_NeedMilkNow, None, East5km)),
       Stored(4, ListingAt(T_Goat, D_Fresh, Some(C_Milk), East4km)),
       Stored(5, WithoutCoordinates(ListingAt(T_FreshMilk, D_2Liters, Some(C_Dairy), East0km))),
       Stored(6, ListingAt(T_GoatMilk, D_Fresh, Some(C_Milk), East4km)),
       Stored(7, ListingAt(T_Milk, <<>>, None, East2km)) >>

SearchDocs == Range(RankedDocs)

NoRepeat(store) == \A i, j \in DOMAIN store : i # j => store[i].id # store[j].id

\* the documents of RankedDocs streamed from the k-th on, round the end
Rotation(k) ==
    [i \in DOMAIN RankedDocs |-> RankedDocs[((k + i - 2) % Len(RankedDocs)) + 1]]

\* every short store in every stream order, and stores of MaxRankedDocs
\* documents, more than search_listings returns, in Len(RankedDocs) orders
SearchStores ==
    UNION { {store \in [1..n -> SearchDocs] : NoRepeat(store)} : n \in 0..MaxSearchDocs }
    \cup { Take(Rotation(k), MaxRankedDocs) : k \in DOMAIN RankedDocs }

SearchPayloads ==
    { [query |-> q, lat |-> c.lat, lng |-> c.lng] :
        q \in {Q_NeedMilk, Q_Milk, Q_TheMilk, Q_To, Q_Empty, Q_Blank},
        c \in { [lat |-> Some(Centre.lat), lng |-> Some(Centre.lng)],
                [lat |-> None, lng |-> None] } }

\* the collections the feeds are applied to: documents created at different
\* times, 0, 2 and 4 km from the centre, and one without coordinates; the
\* ids are 1..n, the stream order is any
FeedKinds ==
    { [point |-> Some(East0km), created_at |-> 0],
      [point |-> Some(East2km), created_at |-> 5],
      [point |-> Some(East0km), created_at |-> 10],
      [point |-> Some(East4km), created_at |-> 15],
      [point |-> None, created_at |-> 20] }

FeedListing(id, kind) ==
    LET payload == ListingAt(T_FreshMilk, D_2Liters, Some(C_Dairy),
                             IF IsNone(kind.point) THEN Centre ELSE Val(kind.point))
    IN  [Stored(id, IF IsNone(kind.point) THEN WithoutCoordinates(payload) ELSE payload)
            EXCEPT !.created_at = kind.created_at]

FeedNeed(id, kind) ==
    [id |-> id, user_uid |-> "u1", status |-> "active",
     lat |-> IF IsNone(kind.point) THEN None ELSE Some(Val(kind.point).lat),
     lng |-> IF IsNone(kind.point) THEN None ELSE Some(Val(kind.point).lng),
     created_at |-> kind.created_at,
     expires_at |-> kind.created_at + UrgentLifetimeHours * 3600]

FeedOrders(n) == {ids \in [1..n -> 1..n] : \A i, j \in 1..n : ids[i] = ids[j] => i = j}
FeedChoices(n) == {kinds \in [1..n -> FeedKinds] : \A i, j \in 1..n : kinds[i] = kinds[j] => i = j}

FeedListingStores ==
    UNION { { [i \in 1..n |-> FeedListing(ids[i], kinds[i])] :
                kinds \in FeedChoices(n), ids \in FeedOrders(n) } : n \in 0..MaxFeedDocs }

FeedNeedStores ==
    UNION { { [i \in 1..n |-> FeedNeed(ids[i], kinds[i])] :
                kinds \in FeedChoices(n), ids \in FeedOrders(n) } : n \in 0..MaxFeedDocs }

FeedSearchPayloads ==
    { [query |-> Q_NeedMilk, lat |-> Some(Centre.lat), lng |-> Some(Centre.lng)],
      [query |-> Q_NeedMilk, lat |-> None, lng |-> None] }

\* ------------------------------------------------------------------- store
HasDoc(store, id) == \E i \in DOMAIN store : store[i].id = id
DocOf(store, id) == store[CHOOSE i \in DOMAIN store : store[i].id = id]
InsertAt(store, pos, d) == SubSeq(store, 1, pos - 1) \o <<d>> \o SubSeq(store, pos, Len(store))
\* ref.update({"status": status}) on the documents whose id is in ids
UpdateStatus(store, ids, status) ==
    [i \in DOMAIN store |-> IF store[i].id \in ids
                            THEN [store[i] EXCEPT !.status = status] ELSE store[i]]

Response(op, req, status, body, hit, calls, deleted) ==
    [op |-> op, req |-> req, status |-> status, body |-> body, hit |-> hit,
     calls |-> calls, deleted |-> deleted, cache_up |-> redis_up, at |-> now]

\* ---------------------------------------------------------------- listings
\* POST /listings
create_listing(uid, payload, pos) ==
    /\ LET d == [id |-> Len(listings) + 1, owner_uid |-> uid, status |-> "active",
                 title |-> payload.title, description |-> payload.description,
                 category |-> payload.category, lat |-> payload.lat, lng |-> payload.lng,
                 created_at |-> now]
           inv == cache_delete_pattern(Redis, ListingsPrefix)
       IN  /\ listings' = InsertAt(listings, pos, d)
           /\ redis_client' = inv.R.client
           /\ redis_data' = inv.R.data
           /\ resp' = Response("create_listing", [uid |-> uid, payload |-> payload],
                               "ok", <<d>>, FALSE, <<>>, inv.ret)
    /\ UNCHANGED <<urgent_needs, redis_up, now, ticks, subdocs, inflight>>

\* the try/except KeyError around haversine, and "if dist <= radius_km"
within_radius(d, lat, lng, radius_km) ==
    /\ ~IsNone(d.lat)
    /\ ~IsNone(d.lng)
    /\ haversine(lat, lng, Val(d.lat), Val(d.lng)) <= radius_km

\* out.sort(key=lambda x: x.created_at, reverse=True)
newest_first(out) ==
    Values(sort_reverse([i \in DOMAIN out |-> [k |-> <<out[i].created_at>>, v |-> out[i]]]))

\* nearby_listings on a cache miss: the scan of the active listings
listings_scan(store, lat, lng, radius_km) ==
    newest_first(SelectSeq(active_docs(store),
                           LAMBDA d : within_radius(d, lat, lng, radius_km)))

\* (variant) GET /listings with the scan in a try/except that turns a store
\* error into an empty feed
nearby_listings_swallowing(q, raises) ==
    LET cache_key == listings_cache_key(q.lat, q.lng, q.radius_km)
        got == cache_get(Redis, cache_key)
        hit == ~IsNone(got.ret) /\ Val(got.ret) # <<>>
        out == IF raises THEN <<>> ELSE listings_scan(listings, q.lat, q.lng, q.radius_km)
        put == cache_set(got.R, cache_key, out, ListingsTTL)
    IN  /\ IF hit
           THEN /\ ~raises
                /\ redis_client' = got.R.client
                /\ redis_data' = got.R.data
                /\ resp' = Response("nearby_listings", q, "ok", Val(got.ret), TRUE, <<>>, 0)
           ELSE /\ redis_client' = put.R.client
                /\ redis_data' = put.R.data
                /\ resp' = Response("nearby_listings", q, "ok", out, FALSE, <<>>, 0)
        /\ UNCHANGED <<listings, urgent_needs, redis_up, now, ticks, subdocs, inflight>>

\* GET /listings
nearby_listings(q, raises) ==
    LET cache_key == listings_cache_key(q.lat, q.lng, q.radius_km)
        got == cache_get(Redis, cache_key)
        hit == ~IsNone(got.ret) /\ Val(got.ret) # <<>>
        out == listings_scan(listings, q.lat, q.lng, q.radius_km)
        put == cache_set(got.R, cache_key, out, ListingsTTL)
    IN  /\ IF hit
           THEN /\ ~raises
                /\ redis_client' = got.R.client
                /\ redis_data' = got.R.data
                /\ resp' = Response("nearby_listings", q, "ok", Val(got.ret), TRUE, <<>>, 0)
           ELSE IF raises
           THEN /\ redis_client' = got.R.client
                /\ redis_data' = got.R.data
                /\ resp' = Response("nearby_listings", q, "500", <<>>, FALSE, <<>>, 0)
           ELSE /\ redis_client' = put.R.client
                /\ redis_data' = put.R.data
                /\ resp' = Response("nearby_listings", q, "ok", out, FALSE, <<>>, 0)
        /\ UNCHANGED <<listings, urgent_needs, redis_up, now, ticks, subdocs, inflight>>

\* the update_data of update_listing ("updated_at", which nothing reads, left out)
update_data(payload) ==
    [status |-> IF ~IsNone(payload.status) THEN payload.status ELSE None,
     description |-> IF ~IsNone(payload.description) /\ Val(payload.description) # <<>>
                     THEN payload.description ELSE None]

apply_update(d, data) ==
    [d EXCEPT !.status = IF IsNone(data.status) THEN @ ELSE Val(data.status),
              !.description = IF IsNone(data.description) THEN @ ELSE Val(data.description)]

\* (variant) PATCH /listings/{listing_id} without the owner check: any
\* authenticated caller updates the listing
update_listing_any_caller(uid, listing_id, payload) ==
    LET data == update_data(payload)
        changes == ~IsNone(data.status) \/ ~IsNone(data.description)
        inv == cache_delete_pattern(Redis, ListingsPrefix)
        req == [uid |-> uid, listing_id |-> listing_id, payload |-> payload]
    IN  /\ IF ~HasDoc(listings, listing_id)
           THEN /\ resp' = Response("update_listing", req, "404", <<>>, FALSE, <<>>, 0)
                /\ UNCHANGED <<listings, redis_client, redis_data>>
           ELSE IF changes
           THEN /\ listings' = [i \in DOMAIN listings |->
                                   IF listings[i].id = listing_id
                                   THEN apply_update(listings[i], data) ELSE listings[i]]
                /\ redis_client' = inv.R.client
                /\ redis_data' = inv.R.data
                /\ resp' = Response("update_listing", req, "ok",
                                    <<apply_update(DocOf(listings, listing_id), data)>>,
                                    FALSE, <<>>, inv.ret)
           ELSE /\ resp' = Response("update_listing", req, "ok",
                                    <<DocOf(listings, listing_id)>>, FALSE, <<>>, 0)
                /\ UNCHANGED <<listings, redis_client, redis_data>>
        /\ UNCHANGED <<urgent_needs, redis_up, now, ticks, subdocs, inflight>>

\* PATCH /listings/{listing_id}
update_listing(uid, listing_id, payload) ==
    LET data == update_data(payload)
        changes == ~IsNone(data.status) \/ ~IsNone(data.description)
        inv == cache_delete_pattern(Redis, ListingsPrefix)
        req == [uid |-> uid, listing_id |-> listing_id, payload |-> payload]
    IN  /\ IF ~HasDoc(listings, listing_id)
           THEN /\ resp' = Response("update_listing", req, "404", <<>>, FALSE, <<>>, 0)
                /\ UNCHANGED <<listings, redis_client, redis_data>>
           ELSE IF DocOf(listings, listing_id).owner_uid # uid
           THEN /\ resp' = Response("update_listing", req, "403", <<>>, FALSE, <<>>, 0)
                /\ UNCHANGED <<listings, redis_client, redis_data>>
           ELSE IF changes
           THEN /\ listings' = [i \in DOMAIN listings |->
                                   IF listings[i].id = listing_id
                                   THEN apply_update(listings[i], data) ELSE listings[i]]
                /\ redis_client' = inv.R.client
                /\ redis_data' = inv.R.data
                /\ resp' = Response("update_listing", req, "ok",
                                    <<apply_update(DocOf(listings, listing_id), data)>>,
                                    FALSE, <<>>, inv.ret)
           ELSE /\ resp' = Response("update_listing", req, "ok",
                                    <<DocOf(listings, listing_id)>>, FALSE, <<>>, 0)
                /\ UNCHANGED <<listings, redis_client, redis_data>>
        /\ UNCHANGED <<urgent_needs, redis_up, now, ticks, subdocs, inflight>>


\* ------------------------------------------- listings, one call per step
\* The listing routes with one store or Redis call per step, as they
\* interleave when several workers serve requests at the same time.

\* cached = cache_get(cache_key), and the answer on a hit
nearby_listings_get(w, q) ==
    LET cache_key == listings_cache_key(q.lat, q.lng, q.radius_km)
        got == cache_get(Redis, cache_key)
        hit == ~IsNone(got.ret) /\ Val(got.ret) # <<>>
    IN  /\ inflight[w].pc = "idle"
        /\ redis_client' = got.R.client
        /\ IF hit
           THEN /\ resp' = Response("nearby_listings", q, "ok", Val(got.ret), TRUE, <<>>, 0)
                /\ inflight' = [inflight EXCEPT ![w].n = @ + 1]
           ELSE /\ inflight' = Begin(w, "nearby_listings", "stream", q, <<>>)
                /\ UNCHANGED resp
        /\ UNCHANGED <<listings, urgent_needs, redis_data, redis_up, now, ticks, subdocs>>

\* docs = db.collection("listings").where("status", "==", "active").stream(),
\* filtered and sorted
nearby_listings_stream(w) ==
    LET q == inflight[w].req
    IN  /\ At(w, "nearby_listings", "stream")
        /\ inflight' = Goto(w, "set", listings_scan(listings, q.lat, q.lng, q.radius_km))
        /\ UNCHANGED <<listings, urgent_needs, redis_client, redis_data, redis_up, now, ticks,
                       resp, subdocs>>

\* cache_set(cache_key, cache_data, expire_seconds=120) and the answer
nearby_listings_set(w) ==
    LET q == inflight[w].req
        out == inflight[w].local
        put == cache_set(Redis, listings_cache_key(q.lat, q.lng, q.radius_km), out, ListingsTTL)
    IN  /\ At(w, "nearby_listings", "set")
        /\ redis_client' = put.R.client
        /\ redis_data' = put.R.data
        /\ resp' = Response("nearby_listings", q, "ok", out, FALSE, <<>>, 0)
        /\ inflight' = Return(w)
        /\ UNCHANGED <<listings, urgent_needs, redis_up, now, ticks, subdocs>>

\* keys = r.keys("listings:*") of cache_delete_pattern; without a client, when
\* the command raises or when no key matches, cache_delete_pattern returns 0
\* and the route answers
invalidate_keys(w, op) ==
    LET g == get_redis(Redis)
        keys == {k \in DOMAIN g.R.data : startswith(k, ListingsPrefix)}
        d == inflight[w].local.d
    IN  /\ At(w, op, "keys")
        /\ redis_client' = g.R.client
        /\ IF g.ret = "None" \/ Raises \/ keys = {}
           THEN /\ resp' = Response(op, inflight[w].req, "ok", <<d>>, FALSE, <<>>, 0)
                /\ inflight' = Return(w)
           ELSE /\ inflight' = Goto(w, "delete", [d |-> d, keys |-> keys])
                /\ UNCHANGED resp
        /\ UNCHANGED <<listings, urgent_needs, redis_data, redis_up, now, ticks, subdocs>>

\* r.delete(*keys) of cache_delete_pattern, and the answer of the route
invalidate_delete(w, op) ==
    LET keys == inflight[w].local.keys
        found == keys \cap DOMAIN redis_data
    IN  /\ At(w, op, "delete")
        /\ redis_data' = IF Raises THEN redis_data ELSE Drop(redis_data, found)
        /\ resp' = Response(op, inflight[w].req, "ok", <<inflight[w].local.d>>, FALSE, <<>>,
                            IF Raises THEN 0 ELSE Cardinality(found))
        /\ inflight' = Return(w)
        /\ UNCHANGED <<listings, urgent_needs, redis_client, redis_up, now, ticks, subdocs>>

\* doc_ref.set(data) of create_listing
create_listing_set(w, uid, payload) ==
    LET d == [id |-> Len(listings) + 1, owner_uid |-> uid, status |-> "active",
              title |-> payload.title, description |-> payload.description,
              category |-> payload.category, lat |-> payload.lat, lng |-> payload.lng,
              created_at |-> now]
    IN  /\ inflight[w].pc = "idle"
        /\ listings' = Append(listings, d)
        /\ inflight' = Begin(w, "create_listing", "keys", [uid |-> uid, payload |-> payload],
                             [d |-> d, keys |-> {}])
        /\ UNCHANGED <<urgent_needs, redis_client, redis_data, redis_up, now, ticks, resp, subdocs>>

create_listing_keys(w) == invalidate_keys(w, "create_listing")
create_listing_delete(w) == invalidate_delete(w, "create_listing")

\* doc = ref.get() of update_listing, the 404 and the 403, and the answer
\* when update_data is empty
update_listing_get(w, uid, listing_id, payload) ==
    LET data == update_data(payload)
        changes == ~IsNone(data.status) \/ ~IsNone(data.description)
        req == [uid |-> uid, listing_id |-> listing_id, payload |-> payload]
        answer(code, body) ==
            /\ resp' = Response("update_listing", req, code, body, FALSE, <<>>, 0)
            /\ inflight' = [inflight EXCEPT ![w].n = @ + 1]
    IN  /\ inflight[w].pc = "idle"
        /\ IF ~HasDoc(listings, listing_id) THEN answer("404", <<>>)
           ELSE IF DocOf(listings, listing_id).owner_uid # uid THEN answer("403", <<>>)
           ELSE IF ~changes THEN answer("ok", <<DocOf(listings, listing_id)>>)
           ELSE /\ inflight' = Begin(w, "update_listing", "update", req,
                                     [d |-> DocOf(listings, listing_id), keys |-> {}])
                /\ UNCHANGED resp
        /\ UNCHANGED <<listings, urgent_needs, redis_client, redis_data, redis_up, now, ticks,
                       subdocs>>

\* ref.update(update_data)
update_listing_update(w) ==
    LET req == inflight[w].req
    IN  /\ At(w, "update_listing", "update")
        /\ listings' = [i \in DOMAIN listings |->
                           IF listings[i].id = req.listing_id
                           THEN apply_update(listings[i], update_data(req.payload))
                           ELSE listings[i]]
        /\ inflight' = Goto(w, "reget", inflight[w].local)
        /\ UNCHANGED <<urgent_needs, redis_client, redis_data, redis_up, now, ticks, resp, subdocs>>

\* doc = ref.get(); d = doc.to_dict() after the update
update_listing_reget(w) ==
    /\ At(w, "update_listing", "reget")
    /\ inflight' = Goto(w, "keys", [d |-> DocOf(listings, inflight[w].req.listing_id), keys |-> {}])
    /\ UNCHANGED <<listings, urgent_needs, redis_client, redis_data, redis_up, now, ticks,
                   resp, subdocs>>

update_listing_keys(w) == invalidate_keys(w, "update_listing")
update_listing_delete(w) == invalidate_delete(w, "update_listing")

\* ------------------------------------------------------------ urgent needs
\* POST /urgent  (title, description and radius_km of the payload, which no
\* operation of the model reads, are left out of the document)
create_urgent_need(uid, payload, pos) ==
    /\ LET lim == rate_limit(Redis, urgent_rate_key(uid), UrgentRateLimit, UrgentRateWindow)
           d == [id |-> Len(urgent_needs) + 1, user_uid |-> uid, status |-> "active",
                 lat |-> payload.lat, lng |-> payload.lng, created_at |-> now,
                 expires_at |-> now + UrgentLifetimeHours * 3600]
           inv == cache_delete_pattern(lim.R, UrgentPrefix)
           req == [uid |-> uid, payload |-> payload]
       IN  IF ~lim.ret
           THEN /\ redis_client' = lim.R.client
                /\ redis_data' = lim.R.data
                /\ resp' = Response("create_urgent_need", req, "429", <<>>, FALSE, <<>>, 0)
                /\ UNCHANGED urgent_needs
           ELSE /\ urgent_needs' = InsertAt(urgent_needs, pos, d)
                /\ redis_client' = inv.R.client
                /\ redis_data' = inv.R.data
                /\ resp' = Response("create_urgent_need", req, "ok", <<d>>, FALSE, <<>>, inv.ret)
    /\ UNCHANGED <<listings, redis_up, now, ticks, subdocs, inflight>>

\* UrgentNeed(id=..., user_uid=..., created_at=..., status=..., lat=..., lng=...)
urgent_item(d) ==
    [id |-> d.id, user_uid |-> d.user_uid, created_at |-> d.created_at,
     status |-> d.status, lat |-> d.lat, lng |-> d.lng]

\* "if expires_at < now"
is_expired(d, t) == d.expires_at < t

\* whether the scan looks at the expiry of d at all: "if dist <= radius_km"
expiry_checked(d, lat, lng, radius_km) == within_radius(d, lat, lng, radius_km)

\* One turn of the loop "for doc in docs" of nearby_urgent_needs.  st.calls are
\* the documents doc.reference.update was called on; the fail_at-th call raises.
scan_step(st, d, lat, lng, radius_km, t, fail_at) ==
    IF st.raised THEN st
    ELSE IF ~expiry_checked(d, lat, lng, radius_km) THEN st
    ELSE IF is_expired(d, t)
         THEN [st EXCEPT !.calls = Append(@, d.id),
                         !.raised = (Len(st.calls) + 1 = fail_at)]
    ELSE [st EXCEPT !.out = Append(@, urgent_item(d))]

RECURSIVE urgent_scan(_, _, _, _, _, _)
urgent_scan(docs, lat, lng, radius_km, t, fail_at) ==
    IF docs = <<>> THEN [out |-> <<>>, calls |-> <<>>, raised |-> FALSE]
    ELSE scan_step(urgent_scan(SubSeq(docs, 1, Len(docs) - 1), lat, lng, radius_km, t, fail_at),
                   docs[Len(docs)], lat, lng, radius_km, t, fail_at)

\* the documents whose update reached the store
updated_ids(st) ==
    {st.calls[i] : i \in {j \in DOMAIN st.calls : ~(st.raised /\ j = Len(st.calls))}}

\* GET /urgent/nearby
nearby_urgent_needs(q, fail_at, raises) ==
    LET cache_key == urgent_cache_key(q.lat, q.lng, q.radius_km)
        got == cache_get(Redis, cache_key)
        hit == ~IsNone(got.ret) /\ Val(got.ret) # <<>>
        st == urgent_scan(active_docs(urgent_needs), q.lat, q.lng, q.radius_km, now, fail_at)
        out == newest_first(st.out)
        put == cache_set(got.R, cache_key, out, UrgentTTL)
    IN  /\ IF hit
           THEN /\ fail_at = 0
                /\ ~raises
                /\ redis_client' = got.R.client
                /\ redis_data' = got.R.data
                /\ resp' = Response("nearby_urgent_needs", q, "ok", Val(got.ret), TRUE, <<>>, 0)
                /\ UNCHANGED urgent_needs
           ELSE IF raises
           THEN /\ fail_at = 0
                /\ redis_client' = got.R.client
                /\ redis_data' = got.R.data
                /\ resp' = Response("nearby_urgent_needs", q, "500", <<>>, FALSE, <<>>, 0)
                /\ UNCHANGED urgent_needs
           ELSE /\ fail_at <= Len(st.calls)
                /\ urgent_needs' = UpdateStatus(urgent_needs, updated_ids(st), "expired")
                /\ IF st.raised
                   THEN /\ redis_client' = got.R.client
                        /\ redis_data' = got.R.data
                        /\ resp' = Response("nearby_urgent_needs", q, "500", <<>>, FALSE, st.calls, 0)
                   ELSE /\ redis_client' = put.R.client
                        /\ redis_data' = put.R.data
                        /\ resp' = Response("nearby_urgent_needs", q, "ok", out, FALSE, st.calls, 0)
        /\ UNCHANGED <<listings, redis_up, now, ticks, subdocs, inflight>>

\* POST /urgent, one Redis or store call per step.  rate_limit is r.incr(key)
\* and, when that returned 1, r.expire(key, window_seconds); each of the two
\* commands raises when the server does not answer, and rate_limit then
\* returns True.
create_urgent_need_incr(w, uid, payload) ==
    LET key == urgent_rate_key(uid)
        req == [uid |-> uid, payload |-> payload]
        g == get_redis(Redis)
        current == IF key \in DOMAIN g.R.data THEN g.R.data[key].val + 1 ELSE 1
        exp == IF key \in DOMAIN g.R.data THEN g.R.data[key].exp ELSE None
    IN  /\ inflight[w].pc = "idle"
        /\ redis_client' = g.R.client
        /\ IF g.ret = "None" \/ Raises
           THEN /\ inflight' = Begin(w, "create_urgent_need", "set", req, 0)
                /\ UNCHANGED <<redis_data, resp>>
           ELSE /\ redis_data' = Put(redis_data, key, [val |-> current, exp |-> exp])
                /\ IF current = 1
                   THEN /\ inflight' = Begin(w, "create_urgent_need", "expire", req, current)
                        /\ UNCHANGED resp
                   ELSE IF current <= UrgentRateLimit
                   THEN /\ inflight' = Begin(w, "create_urgent_need", "set", req, current)
                        /\ UNCHANGED resp
                   ELSE /\ inflight' = [inflight EXCEPT ![w].n = @ + 1]
                        /\ resp' = Response("create_urgent_need", req, "429", <<>>, FALSE, <<>>, 0)
        /\ UNCHANGED <<listings, urgent_needs, redis_up, now, ticks, subdocs>>

\* r.expire(key, window_seconds) of rate_limit, after r.incr returned 1
create_urgent_need_expire(w) ==
    LET key == urgent_rate_key(inflight[w].req.uid)
    IN  /\ At(w, "create_urgent_need", "expire")
        /\ redis_data' = IF ~Raises /\ key \in DOMAIN redis_data
                         THEN [redis_data EXCEPT ![key].exp = Some(now + UrgentRateWindow)]
                         ELSE redis_data
        /\ inflight' = Goto(w, "set", inflight[w].local)
        /\ UNCHANGED <<listings, urgent_needs, redis_client, redis_up, now, ticks, resp, subdocs>>

\* doc_ref.set(data)
create_urgent_need_set(w) ==
    LET req == inflight[w].req
        d == [id |-> Len(urgent_needs) + 1, user_uid |-> req.uid, status |-> "active",
              lat |-> req.payload.lat, lng |-> req.payload.lng, created_at |-> now,
              expires_at |-> now + UrgentLifetimeHours * 3600]
    IN  /\ At(w, "create_urgent_need", "set")
        /\ urgent_needs' = Append(urgent_needs, d)
        /\ inflight' = Goto(w, "invalidate", d)
        /\ UNCHANGED <<listings, redis_client, redis_data, redis_up, now, ticks, resp, subdocs>>

\* cache_delete_pattern("urgent_nearby:*") and the response
create_urgent_need_invalidate(w) ==
    LET inv == cache_delete_pattern(Redis, UrgentPrefix)
    IN  /\ At(w, "create_urgent_need", "invalidate")
        /\ redis_client' = inv.R.client
        /\ redis_data' = inv.R.data
        /\ resp' = Response("create_urgent_need", inflight[w].req, "ok", <<inflight[w].local>>,
                            FALSE, <<>>, inv.ret)
        /\ inflight' = Return(w)
        /\ UNCHANGED <<listings, urgent_needs, redis_up, now, ticks, subdocs>>

\* (variant) POST /urgent/{urgent_id}/resolve without the owner check
resolve_urgent_need_any_caller(uid, urgent_id) ==
    LET req == [uid |-> uid, urgent_id |-> urgent_id]
    IN  /\ IF ~HasDoc(urgent_needs, urgent_id)
           THEN /\ resp' = Response("resolve_urgent_need", req, "not_found", <<>>, FALSE, <<>>, 0)
                /\ UNCHANGED urgent_needs
           ELSE /\ urgent_needs' = UpdateStatus(urgent_needs, {urgent_id}, "resolved")
                /\ resp' = Response("resolve_urgent_need", req, "ok", <<>>, FALSE, <<>>, 0)
        /\ UNCHANGED <<listings, redis_client, redis_data, redis_up, now, ticks, subdocs, inflight>>

\* POST /urgent/{urgent_id}/resolve
resolve_urgent_need(uid, urgent_id) ==
    LET req == [uid |-> uid, urgent_id |-> urgent_id]
    IN  /\ IF ~HasDoc(urgent_needs, urgent_id)
           THEN /\ resp' = Response("resolve_urgent_need", req, "not_found", <<>>, FALSE, <<>>, 0)
                /\ UNCHANGED urgent_needs
           ELSE IF DocOf(urgent_needs, urgent_id).user_uid # uid
           THEN /\ resp' = Response("resolve_urgent_need", req, "forbidden", <<>>, FALSE, <<>>, 0)
                /\ UNCHANGED urgent_needs
           ELSE /\ urgent_needs' = UpdateStatus(urgent_needs, {urgent_id}, "resolved")
                /\ resp' = Response("resolve_urgent_need", req, "ok", <<>>, FALSE, <<>>, 0)
        /\ UNCHANGED <<listings, redis_client, redis_data, redis_up, now, ticks, subdocs, inflight>>

\* ----------------------------------------------------------------- chatbot
\* the suggestions of chatbot_query on a cache miss
chatbot_suggestions(store, payload) ==
    IF Truthy(payload.lat) /\ Truthy(payload.lng)
    THEN search_listings(store, payload.query, payload.lat, payload.lng, ChatbotRadiusKm * 1000)
    ELSE search_listings(store, payload.query, None, None, ChatbotRadiusKm * 1000)

\* POST /chatbot/query.  A ChatbotResponse is [response, suggestions]; the
\* response text, built from payload.query and the suggestions, is stood for
\* by payload.query; the external links are a function of it.
chatbot_query(payload, raises) ==
    LET cache_key == chatbot_cache_key(payload)
        got == cache_get(Redis, cache_key)
        hit == ~IsNone(got.ret)
        result == [response |-> payload.query,
                   suggestions |-> chatbot_suggestions(listings, payload)]
        put == cache_set(got.R, cache_key, result, ChatbotTTL)
    IN  /\ IF hit
           THEN /\ ~raises
                /\ redis_client' = got.R.client
                /\ redis_data' = got.R.data
                /\ resp' = Response("chatbot_query", payload, "ok", Val(got.ret), TRUE, <<>>, 0)
           ELSE IF raises
           THEN /\ redis_client' = got.R.client
                /\ redis_data' = got.R.data
                /\ resp' = Response("chatbot_query", payload, "500", <<>>, FALSE, <<>>, 0)
           ELSE /\ redis_client' = put.R.client
                /\ redis_data' = put.R.data
                /\ resp' = Response("chatbot_query", payload, "ok", result, FALSE, <<>>, 0)
        /\ UNCHANGED <<listings, urgent_needs, redis_up, now, ticks, subdocs, inflight>>

\* search_listings applied to the store as it is
search(payload) ==
    /\ resp' = Response("search_listings", payload, "ok",
                        search_listings(listings, payload.query, payload.lat, payload.lng,
                                        ChatbotRadiusKm * 1000),
                        FALSE, <<>>, 0)
    /\ UNCHANGED <<listings, urgent_needs, redis_client, redis_data, redis_up, now, ticks, subdocs, inflight>>

\* ---------------------------------------------------------------- reactions
\* The reaction routes, one store call per step.  A reaction document is
\* [collection, parent, sub, id, user_uid, reaction_type]: it lies in the
\* sub-collection "reactions" of document parent of the collection.
ReactionTypes == {"like", "helpful"}

IsReactionOf(d, collection, parent) ==
    d.sub = "reactions" /\ d.collection = collection /\ d.parent = parent

\* "if not ref.get().exists: raise HTTPException(404)"
reaction_get(w, op, collection, store, uid, id, payload) ==
    LET req == [uid |-> uid, collection |-> collection, id |-> id, payload |-> payload]
    IN  /\ inflight[w].pc = "idle"
        /\ IF ~HasDoc(store, id)
           THEN /\ resp' = Response(op, req, "404", <<>>, FALSE, <<>>, 0)
                /\ inflight' = [inflight EXCEPT ![w].n = @ + 1]
           ELSE /\ inflight' = Begin(w, op, "where", req, <<>>)
                /\ UNCHANGED resp
        /\ UNCHANGED <<listings, urgent_needs, redis_client, redis_data, redis_up, now, ticks,
                       subdocs>>

\* existing_docs = list(reactions_ref.where("user_uid", "==", uid).stream())
reaction_where(w, op) ==
    LET req == inflight[w].req
        existing_docs == SelectSeq(subdocs, LAMBDA d :
                             IsReactionOf(d, req.collection, req.id) /\ d.user_uid = req.uid)
    IN  /\ At(w, op, "where")
        /\ inflight' = Goto(w, "write", [i \in DOMAIN existing_docs |-> existing_docs[i].id])
        /\ UNCHANGED <<listings, urgent_needs, redis_client, redis_data, redis_up, now, ticks,
                       resp, subdocs>>

\* "if existing_docs: doc_ref.update(...) else: reactions_ref.document().set(...)",
\* then doc_ref.get() and the response
reaction_write(w, op) ==
    LET req == inflight[w].req
        existing_docs == inflight[w].local
        d == [collection |-> req.collection, parent |-> req.id, sub |-> "reactions",
              id |-> Len(subdocs) + 1, user_uid |-> req.uid,
              reaction_type |-> req.payload.reaction_type]
        doc_id == IF existing_docs # <<>> THEN existing_docs[1] ELSE d.id
    IN  /\ At(w, op, "write")
        /\ subdocs' = IF existing_docs # <<>>
                      THEN [i \in DOMAIN subdocs |->
                               IF subdocs[i].id = doc_id
                               THEN [subdocs[i] EXCEPT !.reaction_type = req.payload.reaction_type]
                               ELSE subdocs[i]]
                      ELSE Append(subdocs, d)
        /\ resp' = Response(op, req, "ok",
                            <<[id |-> doc_id, user_uid |-> req.uid,
                               reaction_type |-> req.payload.reaction_type]>>, FALSE, <<>>, 0)
        /\ inflight' = Return(w)
        /\ UNCHANGED <<listings, urgent_needs, redis_client, redis_data, redis_up, now, ticks>>

\* POST /reactions/listings/{listing_id}/reactions
add_listing_reaction_get(w, uid, listing_id, payload) ==
    reaction_get(w, "add_listing_reaction", "listings", listings, uid, listing_id, payload)
add_listing_reaction_where(w) == reaction_where(w, "add_listing_reaction")
add_listing_reaction_write(w) == reaction_write(w, "add_listing_reaction")

\* POST /reactions/urgent/{urgent_id}/reactions
add_urgent_reaction_get(w, uid, urgent_id, payload) ==
    reaction_get(w, "add_urgent_reaction", "urgent_needs", urgent_needs, uid, urgent_id, payload)
add_urgent_reaction_where(w) == reaction_where(w, "add_urgent_reaction")
add_urgent_reaction_write(w) == reaction_write(w, "add_urgent_reaction")

\* ---------------------------------------------------------------- messages
\* A message document is [collection, parent, sub, id, sender_uid, content,
\* linked_listing_id]: it lies in the sub-collection "messages" of urgent
\* need parent.
MessageDoc(urgent_id, uid, content, linked) ==
    [collection |-> "urgent_needs", parent |-> urgent_id, sub |-> "messages",
     id |-> Len(subdocs) + 1, sender_uid |-> uid, content |-> content,
     linked_listing_id |-> linked, created_at |-> now]

\* POST /urgent/{urgent_id}/messages; the ValueError for a missing need
\* reaches the global exception handler, which answers 500
post_urgent_message(uid, urgent_id, payload) ==
    LET req == [uid |-> uid, urgent_id |-> urgent_id, payload |-> payload]
        d == MessageDoc(urgent_id, uid, payload.content, None)
    IN  /\ IF ~HasDoc(urgent_needs, urgent_id)
           THEN /\ resp' = Response("post_urgent_message", req, "500", <<>>, FALSE, <<>>, 0)
                /\ UNCHANGED subdocs
           ELSE /\ subdocs' = Append(subdocs, d)
                /\ resp' = Response("post_urgent_message", req, "ok", <<d>>, FALSE, <<>>, 0)
        /\ UNCHANGED <<listings, urgent_needs, redis_client, redis_data, redis_up, now, ticks,
                       inflight>>

\* POST /urgent/{urgent_id}/respond-with-listing; the content of the message
\* is a sentence around the title of the listing, stood for by the title
respond_with_listing(uid, urgent_id, payload) ==
    LET req == [uid |-> uid, urgent_id |-> urgent_id, payload |-> payload]
        refused(code) == /\ resp' = Response("respond_with_listing", req, code, <<>>, FALSE, <<>>, 0)
                         /\ UNCHANGED subdocs
        listing_data == DocOf(listings, payload.listing_id)
        d == MessageDoc(urgent_id, uid, listing_data.title, Some(payload.listing_id))
    IN  /\ IF ~HasDoc(urgent_needs, urgent_id) THEN refused("404")
           ELSE IF ~HasDoc(listings, payload.listing_id) THEN refused("404")
           ELSE IF listing_data.owner_uid # uid THEN refused("403")
           ELSE IF listing_data.status # "active" THEN refused("400")
           ELSE /\ subdocs' = Append(subdocs, d)
                /\ resp' = Response("respond_with_listing", req, "ok", <<d>>, FALSE, <<>>, 0)
        /\ UNCHANGED <<listings, urgent_needs, redis_client, redis_data, redis_up, now, ticks,
                       inflight>>

\* --------------------------------------------------------------- middleware
HealthPath == <<"/", "h", "e", "a", "l", "t", "h">>
ListingsRoot == <<"/", "l", "i", "s", "t", "i", "n", "g", "s">>
UrgentRoot == <<"/", "u", "r", "g", "e", "n", "t">>
ListingsPath == ListingsRoot \o <<"/">>
UrgentPath == UrgentRoot \o <<"/">>
NearbyPath == UrgentPath \o <<"n", "e", "a", "r", "b", "y">>
ResolvePath(urgent_id) == UrgentPath \o IntStr(urgent_id) \o <<"/", "r", "e", "s", "o", "l", "v", "e">>
MessagesPath(urgent_id) ==
    UrgentPath \o IntStr(urgent_id) \o <<"/", "m", "e", "s", "s", "a", "g", "e", "s">>
RespondPath(urgent_id) ==
    UrgentPath \o IntStr(urgent_id)
    \o <<"/", "r", "e", "s", "p", "o", "n", "d", "-", "w", "i", "t", "h", "-",
         "l", "i", "s", "t", "i", "n", "g">>

\* f"rate_limit:listings:{client_ip}" and f"rate_limit:api:{client_ip}"
RateLimitPrefix == <<"r", "a", "t", "e", "_", "l", "i", "m", "i", "t", ":">>
ClientIp == <<"1", "0", ".", "0", ".", "0", ".", "7">>
listings_rate_key(client_ip) == RateLimitPrefix \o ListingsRoot \o <<":">> \o client_ip
api_rate_key(client_ip) == RateLimitPrefix \o <<"a", "p", "i", ":">> \o client_ip

\* GET /health
health ==
    /\ resp' = Response("health", resp.req, "ok", <<>>, FALSE, <<>>, 0)
    /\ UNCHANGED <<listings, urgent_needs, redis_client, redis_data, redis_up, now, ticks,
                   subdocs, inflight>>

\* RateLimitMiddleware.dispatch up to "await call_next(request)".  The answer
\* recorded is "call_next" when the request is passed on to its route, with
\* the rate-limit keys the middleware checked in calls; the route is the step
\* that follows.
dispatch(request) ==
    LET passed(R, keys) ==
            /\ redis_client' = R.client
            /\ redis_data' = R.data
            /\ resp' = Response("dispatch", request, "call_next", <<>>, FALSE, keys, 0)
        limited(key, limit) ==
            LET lim == rate_limit(Redis, key, limit, MiddlewareWindow)
            IN  IF lim.ret THEN passed(lim.R, <<key>>)
                ELSE /\ redis_client' = lim.R.client
                     /\ redis_data' = lim.R.data
                     /\ resp' = Response("dispatch", request, "429", <<>>, FALSE, <<key>>, 0)
    IN  /\ IF request.path = HealthPath THEN passed(Redis, <<>>)
           ELSE IF startswith(request.path, UrgentRoot) /\ request.method = "POST"
           THEN passed(Redis, <<>>)
           ELSE IF startswith(request.path, ListingsRoot) /\ request.method = "POST"
           THEN limited(listings_rate_key(request.client_ip), ListingsRateLimit)
           ELSE limited(api_rate_key(request.client_ip), ApiRateLimit)
        /\ UNCHANGED <<listings, urgent_needs, redis_up, now, ticks, subdocs, inflight>>

\* ------------------------------------------------------------- environment
\* the clock advances; Redis drops the keys whose expiry has passed
Tick(dt) ==
    /\ ticks < MaxTicks
    /\ now' = now + dt
    /\ ticks' = ticks + 1
    /\ redis_data' = Live(redis_data, now + dt)
    /\ UNCHANGED <<listings, urgent_needs, redis_client, redis_up, resp, subdocs, inflight>>

\* the clock advances to the next instant at which a key of Redis expires
Expire ==
    LET expiries == {Val(redis_data[k].exp) : k \in {x \in DOMAIN redis_data : ~IsNone(redis_data[x].exp)}}
        next == CHOOSE t \in expiries : \A u \in expiries : t <= u
    IN  /\ expiries # {}
        /\ now' = next
        /\ redis_data' = Live(redis_data, next)
        /\ UNCHANGED <<listings, urgent_needs, redis_client, redis_up, ticks, resp, subdocs, inflight>>

\* the Redis server stops answering, or answers again (its data kept)
RedisDown ==
    /\ redis_up
    /\ redis_up' = FALSE
    /\ UNCHANGED <<listings, urgent_needs, redis_client, redis_data, now, ticks, resp, subdocs, inflight>>

RedisBack ==
    /\ ~redis_up
    /\ redis_up' = TRUE
    /\ UNCHANGED <<listings, urgent_needs, redis_client, redis_data, now, ticks, resp, subdocs, inflight>>

\* ---------------------------------------------------------- specifications
NoResponse == Response("none", <<>>, "ok", <<>>, FALSE, <<>>, 0)

Init ==
    /\ listings = <<>>
    /\ urgent_needs = <<>>
    /\ redis_client = "None"
    /\ redis_data = EmptyMap
    /\ redis_up \in BOOLEAN
    /\ now = 0
    /\ ticks = 0
    /\ resp = [NoResponse EXCEPT !.cache_up = TRUE]
    /\ subdocs = <<>>
    /\ inflight = NoRequests

\* the whole service.  The routes of one domain read and write no key and no
\* collection of another (the chatbot reads the listings), so each domain is
\* also explored by itself below, where the state space is small.
Next ==
    \/ \E uid \in Creators, payload \in ListingPayloads \cup ChatbotListings,
          pos \in 1..(Len(listings) + 1) :
           Len(listings) < MaxListings /\ create_listing(uid, payload, pos)
    \/ \E q \in NearbyQueries, raises \in BOOLEAN : nearby_listings(q, raises)
    \/ \E uid \in Users, id \in 1..MaxListings, payload \in UpdatePayloads :
           update_listing(uid, id, payload)
    \/ \E uid \in Creators, payload \in UrgentPayloads, pos \in 1..(Len(urgent_needs) + 1) :
           Len(urgent_needs) < MaxUrgent /\ create_urgent_need(uid, payload, pos)
    \/ \E q \in NearbyQueries, fail_at \in 0..MaxUrgent, raises \in BOOLEAN :
           nearby_urgent_needs(q, fail_at, raises)
    \/ \E uid \in Users, id \in 1..MaxUrgent : resolve_urgent_need(uid, id)
    \/ \E payload \in ChatbotPayloads, raises \in BOOLEAN : chatbot_query(payload, raises)
    \/ \E dt \in UrgentTicks : Tick(dt)
    \/ RedisDown
    \/ RedisBack

Spec == Init /\ [][Next]_vars

\* the listing routes alone, the store streaming in the order of creation
NextListings ==
    \/ \E uid \in Creators, payload \in ListingPayloads, pos \in {Len(listings) + 1} :
           Len(listings) < MaxListings /\ create_listing(uid, payload, pos)
    \/ \E q \in NearbyQueries : nearby_listings(q, FALSE)
    \/ \E uid \in Users, id \in 1..MaxListings, payload \in UpdatePayloads :
           update_listing(uid, id, payload)
    \/ \E dt \in ListingTicks : Tick(dt)
    \/ RedisDown
    \/ RedisBack

SpecListings == Init /\ [][NextListings]_vars

\* the urgent-need routes alone
NextUrgent ==
    \/ \E uid \in Creators, payload \in UrgentPayloads, pos \in 1..(Len(urgent_needs) + 1) :
           Len(urgent_needs) < MaxUrgent /\ create_urgent_need(uid, payload, pos)
    \/ \E q \in NearbyQueries, fail_at \in 0..MaxUrgent : nearby_urgent_needs(q, fail_at, FALSE)
    \/ \E uid \in Users, id \in 1..MaxUrgent : resolve_urgent_need(uid, id)
    \/ \E dt \in UrgentTicks : Tick(dt)
    \/ RedisDown
    \/ RedisBack

SpecUrgent == Init /\ [][NextUrgent]_vars

\* the chatbot route, over listings that POST /listings created
NextChatbot ==
    \/ \E uid \in Creators, payload \in ChatbotListings, pos \in 1..(Len(listings) + 1) :
           Len(listings) < MaxListings /\ create_listing(uid, payload, pos)
    \/ \E payload \in ChatbotPayloads \cup EquatorPayloads : chatbot_query(payload, FALSE)
    \/ \E dt \in ChatbotTicks : Tick(dt)
    \/ RedisDown
    \/ RedisBack

SpecChatbot == Init /\ [][NextChatbot]_vars

\* every route at one instant, with a Redis server that never answers: either
\* it was never reached (the global is None) or it was and has gone (every
\* command raises); the document store works and streams in the order of
\* creation
InitFailOpen ==
    /\ listings = <<>>
    /\ urgent_needs = <<>>
    /\ redis_client \in {"None", "client"}
    /\ redis_data = EmptyMap
    /\ redis_up = FALSE
    /\ now = 0
    /\ ticks = 0
    /\ resp = NoResponse
    /\ subdocs = <<>>
    /\ inflight = NoRequests

NextFailOpen ==
    \/ \E uid \in Creators, payload \in FailOpenListings, pos \in {Len(listings) + 1} :
           Len(listings) < MaxListings /\ create_listing(uid, payload, pos)
    \/ \E q \in NearbyQueries : nearby_listings(q, FALSE)
    \/ \E uid \in Users, id \in 1..MaxListings, payload \in UpdatePayloads :
           update_listing(uid, id, payload)
    \/ \E uid \in Creators, payload \in UrgentPayloads, pos \in {Len(urgent_needs) + 1} :
           Len(urgent_needs) < MaxUrgent /\ create_urgent_need(uid, payload, pos)
    \/ \E q \in NearbyQueries : nearby_urgent_needs(q, 0, FALSE)
    \/ \E payload \in ChatbotPayloads : chatbot_query(payload, FALSE)

SpecFailOpen == InitFailOpen /\ [][NextFailOpen]_vars

\* the three cached reads over what POST /listings and POST /urgent created,
\* the document store answering or raising, the clock stepping within and
\* past the three lifetimes.  The requests of one run stay in one domain: a
\* read is sent at the start or after a request of its own domain.
ListingsRun == resp.op \in {"none", "create_listing", "nearby_listings"}
UrgentRun == resp.op \in {"none", "create_urgent_need", "nearby_urgent_needs"}
ChatbotRun == resp.op \in {"none", "create_listing", "chatbot_query"}

NextReads ==
    \/ \E uid \in Creators, payload \in ListingPayloads, pos \in {Len(listings) + 1} :
           /\ ListingsRun \/ ChatbotRun
           /\ Len(listings) < MaxListings
           /\ create_listing(uid, payload, pos)
    \/ \E uid \in Creators, payload \in UrgentPayloads, pos \in {Len(urgent_needs) + 1} :
           /\ UrgentRun
           /\ Len(urgent_needs) < MaxUrgent
           /\ create_urgent_need(uid, payload, pos)
    \/ \E q \in NearbyQueries, raises \in BOOLEAN :
           ListingsRun /\ nearby_listings(q, raises)
    \/ \E q \in NearbyQueries, raises \in BOOLEAN :
           UrgentRun /\ nearby_urgent_needs(q, 0, raises)
    \/ \E payload \in ChatbotPayloads, raises \in BOOLEAN :
           ChatbotRun /\ chatbot_query(payload, raises)
    \/ \E dt \in ReadTicks : Tick(dt)

InitReads ==
    /\ listings = <<>>
    /\ urgent_needs = <<>>
    /\ redis_client = "None"
    /\ redis_data = EmptyMap
    /\ redis_up = TRUE
    /\ now = 0
    /\ ticks = 0
    /\ resp = NoResponse
    /\ subdocs = <<>>
    /\ inflight = NoRequests

SpecReads == InitReads /\ [][NextReads]_vars

\* the feeds and the search over collections of several documents, with
\* creations and Redis outages in between; one collection is in use per run
InitFeeds ==
    /\ listings \in FeedListingStores
    /\ urgent_needs \in FeedNeedStores
    /\ listings = <<>> \/ urgent_needs = <<>>
    /\ redis_client = "None"
    /\ redis_data = EmptyMap
    /\ redis_up = TRUE
    /\ now = 20
    /\ ticks = 0
    /\ resp = [NoResponse EXCEPT !.at = 20]
    /\ subdocs = <<>>
    /\ inflight = NoRequests

NextFeeds ==
    \/ \E uid \in Creators, payload \in {ListingAt(T_FreshMilk, D_2Liters, Some(C_Dairy), East0km)},
          pos \in {Len(listings) + 1} :
           /\ urgent_needs = <<>>
           /\ Len(listings) < MaxFeedDocs
           /\ create_listing(uid, payload, pos)
    \/ \E uid \in Creators, payload \in {[lat |-> Some(East0km.lat), lng |-> Some(East0km.lng)]},
          pos \in {Len(urgent_needs) + 1} :
           /\ listings = <<>>
           /\ Len(urgent_needs) < MaxFeedDocs
           /\ create_urgent_need(uid, payload, pos)
    \/ \E q \in NearbyQueries : urgent_needs = <<>> /\ nearby_listings(q, FALSE)
    \/ \E q \in NearbyQueries : listings = <<>> /\ nearby_urgent_needs(q, 0, FALSE)
    \/ \E payload \in FeedSearchPayloads : urgent_needs = <<>> /\ search(payload)
    \/ RedisDown
    \/ RedisBack

SpecFeeds == InitFeeds /\ [][NextFeeds]_vars

\* the rate limit of POST /urgent, Redis answering throughout.  The run starts
\* after user u1 has created one need at time 0, which opened u1's counter
\* for an hour, with the clock at that instant or one second before the
\* counter expires.
RateTicks == {1}

\* the value of the counter of user uid, 0 when the key is absent; a user
\* stops calling after the first rejection
RateCount(uid) ==
    IF urgent_rate_key(uid) \in DOMAIN redis_data THEN redis_data[urgent_rate_key(uid)].val ELSE 0

InitRate ==
    /\ listings = <<>>
    /\ urgent_needs = <<FeedNeed(1, [point |-> Some(East0km), created_at |-> 0])>>
    /\ redis_client = "client"
    /\ redis_data = Put(EmptyMap, urgent_rate_key("u1"),
                        [val |-> 1, exp |-> Some(UrgentRateWindow)])
    /\ redis_up = TRUE
    /\ now \in {0, UrgentRateWindow - 1}
    /\ ticks = 0
    /\ resp = NoResponse
    /\ subdocs = <<>>
    /\ inflight = NoRequests

NextRate ==
    \/ \E uid \in Users, payload \in {[lat |-> Some(East0km.lat), lng |-> Some(East0km.lng)]},
          pos \in {Len(urgent_needs) + 1} :
           /\ Len(urgent_needs) < MaxRateNeeds
           /\ RateCount(uid) <= UrgentRateLimit
           /\ create_urgent_need(uid, payload, pos)
    \/ \E q \in NearbyQueries : nearby_urgent_needs(q, 0, FALSE)
    \/ \E dt \in RateTicks : Tick(dt)

SpecRate == InitRate /\ [][NextRate]_vars

\* the urgent feed around the instants at which needs expire: the needs of
\* the store were created in the first 20 seconds and live two hours; the run
\* starts five seconds before the first of them expires, or five seconds after
ExpiryTicks == {10}
ExpiryStarts == {UrgentLifetimeHours * 3600 - 5, UrgentLifetimeHours * 3600 + 5}

InitExpiry ==
    /\ listings = <<>>
    /\ urgent_needs \in FeedNeedStores
    /\ redis_client = "None"
    /\ redis_data = EmptyMap
    /\ redis_up = TRUE
    /\ now \in ExpiryStarts
    /\ ticks = 0
    /\ resp = NoResponse
    /\ subdocs = <<>>
    /\ inflight = NoRequests

NextExpiry ==
    \/ \E uid \in Creators, payload \in {[lat |-> Some(East0km.lat), lng |-> Some(East0km.lng)]},
          pos \in {Len(urgent_needs) + 1} :
           /\ Len(urgent_needs) < MaxFeedDocs
           /\ create_urgent_need(uid, payload, pos)
    \/ \E q \in NearbyQueries : nearby_urgent_needs(q, 0, FALSE)
    \/ \E dt \in ExpiryTicks : Tick(dt)

SpecExpiry == InitExpiry /\ [][NextExpiry]_vars

\* haversine as a function: each of its three copies on every pair of points
GeoPoints ==
    { Centre, East2km, East4km, East8km, Equator,
      [lat |-> -250, lng |-> 100], [lat |-> 100, lng |-> -3000], [lat |-> -40, lng |-> -7] }
Copies == {"listings", "urgent", "chatbot"}

distance(copy, a, b) ==
    IF copy = "listings" THEN haversine_listings(a.lat, a.lng, b.lat, b.lng)
    ELSE IF copy = "urgent" THEN haversine_urgent(a.lat, a.lng, b.lat, b.lng)
    ELSE haversine(a.lat, a.lng, b.lat, b.lng)

measure(copy, a, b) ==
    /\ resp' = Response("haversine", [copy |-> copy, a |-> a, b |-> b], "ok",
                        <<distance(copy, a, b)>>, FALSE, <<>>, 0)
    /\ UNCHANGED <<listings, urgent_needs, redis_client, redis_data, redis_up, now, ticks, subdocs, inflight>>

NextGeo == \E copy \in Copies, a \in GeoPoints, b \in GeoPoints : measure(copy, a, b)

SpecGeo == InitReads /\ [][NextGeo]_vars

\* the reaction routes over one listing and one urgent need, the workers
\* serving requests at the same time, MaxRequests each
ReactionPayloads == {[reaction_type |-> t] : t \in ReactionTypes}

InitReactions ==
    /\ listings = <<FeedListing(1, [point |-> Some(East0km), created_at |-> 0])>>
    /\ urgent_needs = <<FeedNeed(1, [point |-> Some(East0km), created_at |-> 0])>>
    /\ redis_client = "None"
    /\ redis_data = EmptyMap
    /\ redis_up = TRUE
    /\ now = 0
    /\ ticks = 0
    /\ resp = NoResponse
    /\ subdocs = <<>>
    /\ inflight = NoRequests

NextReactions ==
    \/ \E w \in Workers, uid \in Users, id \in 1..2, payload \in ReactionPayloads :
           /\ inflight[w].n < MaxRequests
           /\ add_listing_reaction_get(w, uid, id, payload)
    \/ \E w \in Workers : add_listing_reaction_where(w)
    \/ \E w \in Workers : add_listing_reaction_write(w)
    \/ \E w \in Workers, uid \in Users, id \in 1..2, payload \in ReactionPayloads :
           /\ inflight[w].n < MaxRequests
           /\ add_urgent_reaction_get(w, uid, id, payload)
    \/ \E w \in Workers : add_urgent_reaction_where(w)
    \/ \E w \in Workers : add_urgent_reaction_write(w)

SpecReactions == InitReactions /\ [][NextReactions]_vars

\* POST /urgent call by call: the workers serve MaxRequests requests each,
\* the Redis server may stop answering between any two calls, and the clock
\* may step past the window of the rate limit
RateStepTicks == {UrgentRateWindow}

NextRateSteps ==
    \/ \E w \in Workers, uid \in Creators,
          payload \in {[lat |-> Some(East0km.lat), lng |-> Some(East0km.lng)]} :
           /\ inflight[w].n < MaxRequests
           /\ create_urgent_need_incr(w, uid, payload)
    \/ \E w \in Workers : create_urgent_need_expire(w)
    \/ \E w \in Workers : create_urgent_need_set(w)
    \/ \E w \in Workers : create_urgent_need_invalidate(w)
    \/ \E dt \in RateStepTicks : Tick(dt)
    \/ RedisDown
    \/ RedisBack

SpecRateSteps == InitReads /\ [][NextRateSteps]_vars

\* every request through the middleware, one at a time, Redis answering.  The
\* run starts within a minute in which the client has sent one request less
\* than each limit of the middleware allows; a client stops after its first
\* rejection.
Request(method, path, args) ==
    [method |-> method, path |-> path, client_ip |-> ClientIp, args |-> args]

Requests ==
    {Request("GET", HealthPath, <<>>)}
    \cup {Request("POST", ListingsPath, [uid |-> uid, payload |-> payload]) :
            uid \in Creators, payload \in {ListingAt(T_FreshMilk, D_2Liters, Some(C_Dairy), East0km)}}
    \cup {Request("GET", ListingsPath, q) : q \in NearbyQueries}
    \cup {Request("POST", UrgentPath, [uid |-> uid, payload |-> payload]) :
            uid \in Creators, payload \in {[lat |-> Some(East0km.lat), lng |-> Some(East0km.lng)]}}
    \cup {Request("GET", NearbyPath, q) : q \in NearbyQueries}
    \cup {Request("POST", ResolvePath(id), [uid |-> uid, urgent_id |-> id]) :
            uid \in Users, id \in 1..MaxUrgent}
    \cup {Request("POST", MessagesPath(id),
                  [uid |-> uid, urgent_id |-> id, payload |-> [content |-> D_Fresh]]) :
            uid \in Users, id \in 1..MaxUrgent}
    \cup {Request("POST", RespondPath(id),
                  [uid |-> uid, urgent_id |-> id, payload |-> [listing_id |-> 1]]) :
            uid \in Users, id \in 1..MaxUrgent}

CounterOf(key) == IF key \in DOMAIN redis_data THEN redis_data[key].val ELSE 0

\* what the client still sends, and what the bounds of the run leave room for
Sendable(request) ==
    /\ CounterOf(listings_rate_key(request.client_ip)) <= ListingsRateLimit
    /\ CounterOf(api_rate_key(request.client_ip)) <= ApiRateLimit
    /\ request.path = ListingsPath /\ request.method = "POST" => Len(listings) < MaxListings
    /\ request.path = UrgentPath => Len(urgent_needs) < MaxUrgent
    /\ request.method = "POST" /\ startswith(request.path, UrgentRoot) /\ request.path # UrgentPath
           => Len(subdocs) < MaxMessages

\* dispatch has passed a request with this method and path on to its route
Routed(method, path) ==
    /\ resp.op = "dispatch"
    /\ resp.status = "call_next"
    /\ resp.req.method = method
    /\ resp.req.path = path

Pending == resp.op = "dispatch" /\ resp.status = "call_next"

InitMiddleware ==
    /\ listings = <<>>
    /\ urgent_needs = <<>>
    /\ redis_client = "client"
    /\ redis_data = Put(Put(EmptyMap, listings_rate_key(ClientIp),
                            [val |-> ListingsRateLimit - 1, exp |-> Some(MiddlewareWindow)]),
                        api_rate_key(ClientIp),
                        [val |-> ApiRateLimit - 1, exp |-> Some(MiddlewareWindow)])
    /\ redis_up = TRUE
    /\ now = 0
    /\ ticks = 0
    /\ resp = NoResponse
    /\ subdocs = <<>>
    /\ inflight = NoRequests

NextMiddleware ==
    \/ \E request \in Requests : ~Pending /\ Sendable(request) /\ dispatch(request)
    \/ Routed("GET", HealthPath) /\ health
    \/ Routed("POST", ListingsPath)
           /\ create_listing(resp.req.args.uid, resp.req.args.payload, Len(listings) + 1)
    \/ Routed("GET", ListingsPath) /\ nearby_listings(resp.req.args, FALSE)
    \/ Routed("POST", UrgentPath)
           /\ create_urgent_need(resp.req.args.uid, resp.req.args.payload, Len(urgent_needs) + 1)
    \/ Routed("GET", NearbyPath) /\ nearby_urgent_needs(resp.req.args, 0, FALSE)
    \/ \E id \in 1..MaxUrgent :
           Routed("POST", ResolvePath(id)) /\ resolve_urgent_need(resp.req.args.uid, id)
    \/ \E id \in 1..MaxUrgent :
           Routed("POST", MessagesPath(id))
               /\ post_urgent_message(resp.req.args.uid, id, resp.req.args.payload)
    \/ \E id \in 1..MaxUrgent :
           Routed("POST", RespondPath(id))
               /\ respond_with_listing(resp.req.args.uid, id, resp.req.args.payload)

SpecMiddleware == InitMiddleware /\ [][NextMiddleware]_vars

\* the listing routes call by call: the workers serve MaxRequests requests
\* each, the clock advances from expiry to expiry, and Redis goes down and
\* comes back
InterleavedUpdates ==
    { [status |-> Some("reserved"), description |-> None],
      [status |-> None, description |-> Some(D_Sold)] }

ListingSteps ==
    \/ \E w \in Workers, q \in NearbyQueries :
           inflight[w].n < MaxRequests /\ nearby_listings_get(w, q)
    \/ \E w \in Workers : nearby_listings_stream(w)
    \/ \E w \in Workers : nearby_listings_set(w)
    \/ \E w \in Workers, uid \in Creators,
          payload \in {ListingAt(T_FreshMilk, D_2Liters, Some(C_Dairy), East0km)} :
           /\ inflight[w].n < MaxRequests
           /\ Len(listings) < MaxListings
           /\ create_listing_set(w, uid, payload)
    \/ \E w \in Workers : create_listing_keys(w)
    \/ \E w \in Workers : create_listing_delete(w)
    \/ \E w \in Workers, uid \in Users, id \in 1..MaxListings, payload \in InterleavedUpdates :
           inflight[w].n < MaxRequests /\ update_listing_get(w, uid, id, payload)
    \/ \E w \in Workers : update_listing_update(w)
    \/ \E w \in Workers : update_listing_reget(w)
    \/ \E w \in Workers : update_listing_keys(w)
    \/ \E w \in Workers : update_listing_delete(w)

NextInterleaved == ListingSteps \/ Expire \/ RedisDown \/ RedisBack

SpecInterleaved == InitReads /\ [][NextInterleaved]_vars

\* every call of a request in progress is made in the end, and time passes
SpecInterleavedLive == SpecInterleaved /\ WF_vars(ListingSteps) /\ WF_vars(Expire)

\* search_listings as a function: every store of SearchStores, every query
InitSearch ==
    /\ listings \in SearchStores
    /\ urgent_needs = <<>>
    /\ redis_client = "None"
    /\ redis_data = EmptyMap
    /\ redis_up = TRUE
    /\ now = 0
    /\ ticks = 0
    /\ resp = [NoResponse EXCEPT !.cache_up = TRUE]
    /\ subdocs = <<>>
    /\ inflight = NoRequests

NextSearch == \E payload \in SearchPayloads : search(payload)

SpecSearch == InitSearch /\ [][NextSearch]_vars

\* ================================================================== claims
\* a description that is given and not empty
GivenText(o) == ~IsNone(o) /\ Val(o) # <<>>

KeysUnder(data, prefix) == {k \in DOMAIN data : startswith(k, prefix)}
Ids(items) == {items[i].id : i \in DOMAIN items}

\* ----------------------------------------------------------------------- C1
\* the last request was create_listing, or update_listing with a non-empty
\* change, and returned with Redis reachable
AfterListingWrite ==
    /\ resp.op \in {"create_listing", "update_listing"}
    /\ resp.status = "ok"
    /\ resp.cache_up
    /\ resp.op = "update_listing" =>
           update_data(resp.req.payload) # update_data([status |-> None, description |-> None])

\* a step in which a request is served (the clock and the server stand still)
RequestStep == UNCHANGED <<now, ticks, redis_up>>

\* the result nearby_listings has to give for query q on the store as it is:
\* the active listings with coordinates within the radius, newest first
FreshListings(store, q) ==
    newest_first(SelectSeq(store, LAMBDA d :
        /\ d.status = "active"
        /\ ~IsNone(d.lat) /\ ~IsNone(d.lng)
        /\ haversine(q.lat, q.lng, Val(d.lat), Val(d.lng)) <= q.radius_km))

\* C1: when create_listing, or update_listing with a non-empty change, returns
\* with Redis reachable, no key under "listings:" that existed before the call
\* remains; and the nearby_listings request that follows such a write (no
\* request in between) returns the result computed from the store as it is.
C1_ListingWritesInvalidate ==
    [][ /\ (RequestStep /\ AfterListingWrite') =>
               KeysUnder(redis_data, ListingsPrefix) \cap DOMAIN redis_data' = {}
        /\ (RequestStep /\ AfterListingWrite /\ resp'.op = "nearby_listings") =>
               /\ resp'.body = FreshListings(listings', resp'.req)
               /\ ~resp'.hit ]_vars

\* a listing write has just deleted a cached result, with Redis reachable
C1_Witness ==
    /\ AfterListingWrite
    /\ resp.deleted > 0
    /\ KeysUnder(redis_data, ListingsPrefix) = {}

\* ----------------------------------------------------------------------- C2
\* a step that creates an urgent need or changes the status of one
UrgentWrite ==
    \/ \E uid \in Creators, payload \in UrgentPayloads, pos \in 1..(Len(urgent_needs) + 1) :
           create_urgent_need(uid, payload, pos) /\ resp'.status = "ok"
    \/ \E uid \in Users, id \in 1..MaxUrgent :
           resolve_urgent_need(uid, id) /\ resp'.status = "ok"
    \/ \E q \in NearbyQueries, fail_at \in 0..MaxUrgent :
           nearby_urgent_needs(q, fail_at, FALSE) /\ resp'.calls # <<>>

\* C2: every operation that creates an urgent need or changes its status
\* (create_urgent_need, resolve_urgent_need, the active-to-expired update of
\* nearby_urgent_needs) leaves, with Redis reachable, no entry under
\* "urgent_nearby:" other than the one the scan itself has just written; and
\* the nearby_urgent_needs request that follows a resolve_urgent_need that
\* returned "ok" does not contain the resolved need.
C2_UrgentWritesInvalidate ==
    [][ /\ (UrgentWrite /\ redis_up) =>
               \A k \in KeysUnder(redis_data', UrgentPrefix) :
                   /\ resp'.op = "nearby_urgent_needs"
                   /\ k = urgent_cache_key(resp'.req.lat, resp'.req.lng, resp'.req.radius_km)
        /\ \A q \in NearbyQueries :
               (/\ resp.op = "resolve_urgent_need"
                /\ resp.status = "ok"
                /\ resp.cache_up
                /\ nearby_urgent_needs(q, 0, FALSE)) =>
                   resp.req.urgent_id \notin Ids(resp'.body) ]_vars

\* ----------------------------------------------------------------------- C5
\* C5: on a cache miss of nearby_urgent_needs every active urgent need with
\* expires_at < now that the store streams, whatever its distance from the
\* query center, is absent from the response and the store receives exactly
\* one update setting its status to "expired".
C5_LazyExpiryCoversEveryExpired ==
    [][ \A q \in NearbyQueries, fail_at \in 0..MaxUrgent :
            (nearby_urgent_needs(q, fail_at, FALSE) /\ ~resp'.hit /\ resp'.status = "ok") =>
                \A i \in DOMAIN urgent_needs :
                    (urgent_needs[i].status = "active" /\ urgent_needs[i].expires_at < now) =>
                        /\ urgent_needs[i].id \notin Ids(resp'.body)
                        /\ Cardinality({c \in DOMAIN resp'.calls :
                                           resp'.calls[c] = urgent_needs[i].id}) = 1
                        /\ urgent_needs'[i].status = "expired" ]_vars

\* ----------------------------------------------------------------------- C6
\* the list nearby_urgent_needs has to give at time t: the active needs with
\* coordinates within the radius that have not expired, newest first
FreshUrgent(store, q, t) ==
    newest_first(
        LET live == SelectSeq(store, LAMBDA d :
                        /\ d.status = "active"
                        /\ ~IsNone(d.lat) /\ ~IsNone(d.lng)
                        /\ haversine(q.lat, q.lng, Val(d.lat), Val(d.lng)) <= q.radius_km
                        /\ ~(d.expires_at < t))
        IN  [i \in DOMAIN live |-> urgent_item(live[i])])

\* C6: when a store update that marks an expired need "expired" fails during
\* nearby_urgent_needs, the request still succeeds, returns the list it
\* returns when the update succeeds, and caches it.
C6_FailedExpireUpdateNonFatal ==
    [][ \A q \in NearbyQueries, fail_at \in 1..MaxUrgent :
            nearby_urgent_needs(q, fail_at, FALSE) =>
                /\ resp'.status = "ok"
                /\ resp'.body = FreshUrgent(urgent_needs, q, now)
                /\ redis_up =>
                       LET key == urgent_cache_key(q.lat, q.lng, q.radius_km)
                       IN  /\ key \in DOMAIN redis_data'
                           /\ redis_data'[key].val = resp'.body ]_vars

\* ----------------------------------------------------------------------- C3
\* C3: when no call to Redis succeeds (the connection is refused in get_redis,
\* or the command raises), nearby_listings, nearby_urgent_needs and
\* chatbot_query return the result computed from the store, create_listing,
\* update_listing and create_urgent_need complete their store write and
\* succeed, rate_limit allows the request, and no request fails.
C3_CacheFailOpen ==
    ~resp.cache_up =>
        /\ resp.status \notin {"500", "429"}
        /\ resp.op = "nearby_listings" =>
               ~resp.hit /\ resp.body = FreshListings(listings, resp.req)
        /\ resp.op = "nearby_urgent_needs" =>
               ~resp.hit /\ resp.body = FreshUrgent(urgent_needs, resp.req, resp.at)
        /\ resp.op = "chatbot_query" =>
               ~resp.hit /\ resp.body.suggestions = chatbot_suggestions(listings, resp.req)
        /\ resp.op \in {"create_listing", "create_urgent_need"} =>
               /\ resp.status = "ok"
               /\ resp.body[1] \in Range(IF resp.op = "create_listing"
                                         THEN listings ELSE urgent_needs)
        /\ resp.op = "update_listing" =>
               /\ resp.status = "404" <=> ~HasDoc(listings, resp.req.listing_id)
               /\ resp.status = "403" =>
                      DocOf(listings, resp.req.listing_id).owner_uid # resp.req.uid
               /\ resp.status = "ok" =>
                      LET d == DocOf(listings, resp.req.listing_id)
                          p == resp.req.payload
                      IN  /\ d = resp.body[1]
                          /\ d.owner_uid = resp.req.uid
                          /\ ~IsNone(p.status) => d.status = Val(p.status)
                          /\ GivenText(p.description) => d.description = Val(p.description)

\* a chatbot query answered from the store by a client whose commands raise
C3_Witness ==
    /\ resp.op = "chatbot_query"
    /\ ~resp.cache_up
    /\ redis_client = "client"
    /\ resp.body.suggestions # <<>>

\* ----------------------------------------------------------------------- C4
\* the distance, in metres, from the centre of query q to document d
TrueDistance(q, d) == haversine(q.lat, q.lng, Val(d.lat), Val(d.lng))

\* C4: on the three search paths a candidate whose distance d to the query
\* centre is computed appears in the output of nearby_listings, of
\* nearby_urgent_needs (if not expired) and of search_listings with radius
\* 5.0 km (if the query is not empty and its score is > 0; fewer than six
\* candidates, so none is cut) if and only if d <= radius_km, d being the
\* unrounded distance.
C4_RadiusCutoffExact ==
    /\ (resp.op = "nearby_listings" /\ ~resp.hit) =>
           \A i \in DOMAIN listings :
               LET d == listings[i]
               IN  (d.status = "active" /\ ~IsNone(d.lat) /\ ~IsNone(d.lng)) =>
                       (d.id \in Ids(resp.body) <=> TrueDistance(resp.req, d) <= resp.req.radius_km)
    /\ (resp.op = "nearby_urgent_needs" /\ ~resp.hit /\ resp.status = "ok") =>
           \A i \in DOMAIN urgent_needs :
               LET d == urgent_needs[i]
               IN  (d.status = "active" /\ ~IsNone(d.lat) /\ ~IsNone(d.lng)
                      /\ ~(d.expires_at < resp.at)) =>
                       (d.id \in Ids(resp.body) <=> TrueDistance(resp.req, d) <= resp.req.radius_km)
    /\ (resp.op = "chatbot_query" /\ ~resp.hit /\ query_lower(resp.req.query) # <<>>
          /\ Truthy(resp.req.lat) /\ Truthy(resp.req.lng)) =>
           \A i \in DOMAIN listings :
               LET d == listings[i]
                   c == [lat |-> Val(resp.req.lat), lng |-> Val(resp.req.lng)]
               IN  (d.status = "active" /\ ~IsNone(d.lat) /\ ~IsNone(d.lng)
                      /\ score(resp.req.query, d) > 0) =>
                       (d.id \in Ids(resp.body.suggestions) <=> TrueDistance(c, d) <= 5000)

\* ----------------------------------------------------------------------- C7
\* x is at least as close as y; no distance counts as farther than any distance
AtLeastAsClose(x, y) ==
    \/ IsNone(y.distance_km)
    \/ ~IsNone(x.distance_km) /\ Val(x.distance_km) <= Val(y.distance_km)

\* C7: for two results x before y in the list search_listings returns, either
\* x.relevance_score > y.relevance_score, or the scores are equal and x is at
\* least as close as y; for every distance >= 0, 0.0 km included.
C7_RankingOrder ==
    resp.op = "search_listings" =>
        \A i, j \in DOMAIN resp.body :
            i < j =>
                \/ resp.body[i].relevance_score > resp.body[j].relevance_score
                \/ /\ resp.body[i].relevance_score = resp.body[j].relevance_score
                   /\ AtLeastAsClose(resp.body[i], resp.body[j])

\* --------------------------------------------------------------- C8 and C9
\* the word-character runs of s, from left to right: s[i..j] is one when it
\* holds word characters only and no word character stands next to it
IsRun(s, i, j) ==
    /\ i <= j
    /\ \A k \in i..j : IsWordChar(s[k])
    /\ i = 1 \/ ~IsWordChar(s[i - 1])
    /\ j = Len(s) \/ ~IsWordChar(s[j + 1])

RunStarts(s) == {i \in DOMAIN s : \E j \in DOMAIN s : IsRun(s, i, j)}

RECURSIVE RunsFrom(_, _)
RunsFrom(s, from) ==
    LET starts == {i \in RunStarts(s) : i >= from}
    IN  IF starts = {} THEN <<>>
        ELSE LET i == CHOOSE a \in starts : \A b \in starts : a <= b
                 j == CHOOSE e \in DOMAIN s : IsRun(s, i, e)
             IN  <<SubSeq(s, i, j)>> \o RunsFrom(s, j + 1)

\* the runs that are no stop word and longer than two characters
SurvivingTokens(q) ==
    SelectSeq(RunsFrom(q, 1), LAMBDA t : t \notin stop_words /\ Len(t) > 2)

\* the token list: the surviving tokens, or the whole query when there is none
TokenList(q) == IF SurvivingTokens(q) = <<>> THEN <<q>> ELSE SurvivingTokens(q)

\* 10 for the phrase, and 3, 2 and 1 for each token of tokens found in the
\* title, the description and the category
ScoreOver(tokens, q, d) ==
      (IF contains(lower(d.title), q) \/ contains(lower(d.description), q) THEN 10 ELSE 0)
    + SumSeq([i \in DOMAIN tokens |->
                  (IF contains(lower(d.title), tokens[i]) THEN 3 ELSE 0)
                + (IF contains(lower(d.description), tokens[i]) THEN 2 ELSE 0)
                + (IF contains(lower(category_text(d)), tokens[i]) THEN 1 ELSE 0)])

\* the scenario: "need milk" against "Fresh Milk for sale", "2 liters", "dairy"
IsScenario(q, d) ==
    /\ q = lower(Q_NeedMilk)
    /\ d.title = T_FreshMilk
    /\ d.description = D_2Liters
    /\ d.category = Some(C_Dairy)

\* every result of the search carries the score ScoreOver gives for the
\* surviving tokens or, with whole_query_token, for the token list
ScoredBy(whole_query_token) ==
    (resp.op = "search_listings" /\ query_lower(resp.req.query) # <<>>) =>
        LET q == query_lower(resp.req.query)
            tokens == IF whole_query_token THEN TokenList(q) ELSE SurvivingTokens(q)
        IN  \A i \in DOMAIN resp.body :
                LET d == DocOf(listings, resp.body[i].id)
                IN  /\ resp.body[i].relevance_score = ScoreOver(tokens, q, d)
                    /\ resp.body[i].relevance_score > 0
                    /\ IsScenario(q, d) => resp.body[i].relevance_score = 3

\* C8 as stated: for a non-empty normalised query q the score of a candidate
\* is 10 if q is a substring of the lowercased title or description, plus the
\* sum over the surviving tokens of 3, 2 and 1 for title, description and
\* category; a candidate is returned only with a score > 0, relevance_score is
\* that score, and the scenario scores 3.
C8_ScoreOverSurvivingTokens == ScoredBy(FALSE)

\* C8 amended: the sum runs over the token list, which is the whole normalised
\* query when no token survives.
C8_ScoreOverTokenList == ScoredBy(TRUE)

\* the scenario of C8 has been searched and scored
C8_Witness ==
    /\ resp.op = "search_listings"
    /\ \E i \in DOMAIN resp.body :
           /\ IsScenario(query_lower(resp.req.query), DocOf(listings, resp.body[i].id))
           /\ resp.body[i].relevance_score = 3

\* C9 as stated: the token list is exactly the word-character runs of the
\* lowercased, trimmed query that are no stop word and longer than 2, or the
\* whole normalised query when none survives; and no stop word and no token
\* of length <= 2 is in the list to contribute per-token points.
C9_TokensNeverStopOrShort ==
    (resp.op = "search_listings" /\ query_lower(resp.req.query) # <<>>) =>
        LET q == query_lower(resp.req.query)
        IN  /\ keywords(resp.req.query) = TokenList(q)
            /\ \A t \in Range(keywords(resp.req.query)) : t \notin stop_words /\ Len(t) > 2

\* C9 amended: a stop word or a token of length <= 2 is in the list only when
\* no token survives and it is the whole normalised query.
C9_TokenSelection ==
    (resp.op = "search_listings" /\ query_lower(resp.req.query) # <<>>) =>
        LET q == query_lower(resp.req.query)
        IN  /\ keywords(resp.req.query) = TokenList(q)
            /\ \A t \in Range(keywords(resp.req.query)) :
                   (t \in stop_words \/ Len(t) <= 2) =>
                       /\ SurvivingTokens(q) = <<>>
                       /\ keywords(resp.req.query) = <<q>>
            /\ \A i \in DOMAIN resp.body :
                   resp.body[i].relevance_score
                       = ScoreOver(TokenList(q), q, DocOf(listings, resp.body[i].id))

\* the stop word "to", the whole query, has scored on the title "Tomato"
C9_Witness ==
    /\ resp.op = "search_listings"
    /\ query_lower(resp.req.query) = Q_To
    /\ \E i \in DOMAIN resp.body : resp.body[i].relevance_score = 13

\* ---------------------------------------------------------------------- C10
\* C10: an empty or whitespace-only query matches nothing: search_listings
\* returns the empty list and chatbot_query returns no suggestions.
C10_EmptyQueryMatchesNothing ==
    /\ (resp.op = "search_listings" /\ query_lower(resp.req.query) = <<>>) =>
           resp.body = <<>>
    /\ (resp.op = "chatbot_query" /\ query_lower(resp.req.query) = <<>>) =>
           resp.body.suggestions = <<>>

\* ---------------------------------------------------------------------- C11
\* a centre is supplied: both coordinates are given
CentreGiven(p) == ~IsNone(p.lat) /\ ~IsNone(p.lng)

\* two chatbot payloads ask the same logical query: the same normalised text,
\* both with or both without a centre, the same coordinates to four decimals
SameChatbotQuery(p, r) ==
    /\ query_lower(p.query) = query_lower(r.query)
    /\ CentreGiven(p) <=> CentreGiven(r)
    /\ CentreGiven(p) =>
           /\ Fmt4(Val(p.lat)) = Fmt4(Val(r.lat))
           /\ Fmt4(Val(p.lng)) = Fmt4(Val(r.lng))

\* two feed queries ask the same logical query: the same coordinates to four
\* decimals and the same radius
SameNearbyQuery(p, r) ==
    /\ Fmt4(p.lat) = Fmt4(r.lat)
    /\ Fmt4(p.lng) = Fmt4(r.lng)
    /\ p.radius_km = r.radius_km

\* C11: within a domain two requests get the same cache key if and only if they
\* ask the same logical query (same normalised text, same coordinates rounded
\* to four decimals, same radius, a centre supplied by both or by neither), for
\* any query text; and a chatbot_query answered from the cache receives a
\* response built for its own query text.
C11_CacheKeySeparation ==
    [][ RequestStep =>
            /\ (resp.op = "chatbot_query" /\ resp'.op = "chatbot_query") =>
                   (chatbot_cache_key(resp.req) = chatbot_cache_key(resp'.req)
                        <=> SameChatbotQuery(resp.req, resp'.req))
            /\ (resp.op = "nearby_listings" /\ resp'.op = "nearby_listings") =>
                   (listings_cache_key(resp.req.lat, resp.req.lng, resp.req.radius_km)
                        = listings_cache_key(resp'.req.lat, resp'.req.lng, resp'.req.radius_km)
                        <=> SameNearbyQuery(resp.req, resp'.req))
            /\ (resp.op = "nearby_urgent_needs" /\ resp'.op = "nearby_urgent_needs") =>
                   (urgent_cache_key(resp.req.lat, resp.req.lng, resp.req.radius_km)
                        = urgent_cache_key(resp'.req.lat, resp'.req.lng, resp'.req.radius_km)
                        <=> SameNearbyQuery(resp.req, resp'.req))
            /\ (resp'.op = "chatbot_query" /\ resp'.hit) =>
                   query_lower(resp'.body.response) = query_lower(resp'.req.query) ]_vars

\* ---------------------------------------------------------------------- C12
CachedReads == {"nearby_listings", "nearby_urgent_needs", "chatbot_query"}

\* the keys of cached results, and the lifetime of the entry under key k
ResultKeys(data) ==
    KeysUnder(data, ListingsPrefix) \cup KeysUnder(data, UrgentPrefix)
        \cup KeysUnder(data, ChatbotPrefix)

LifetimeOf(k) ==
    IF startswith(k, ListingsPrefix) THEN ListingsTTL
    ELSE IF startswith(k, UrgentPrefix) THEN UrgentTTL
    ELSE ChatbotTTL

\* the cache key of the read recorded in r
KeyOf(r) ==
    IF r.op = "nearby_listings"
    THEN listings_cache_key(r.req.lat, r.req.lng, r.req.radius_km)
    ELSE IF r.op = "nearby_urgent_needs"
    THEN urgent_cache_key(r.req.lat, r.req.lng, r.req.radius_km)
    ELSE chatbot_cache_key(r.req)

\* the result the read recorded in r computes from the stores ls and us
Computed(r, ls, us) ==
    IF r.op = "nearby_listings" THEN FreshListings(ls, r.req)
    ELSE IF r.op = "nearby_urgent_needs" THEN FreshUrgent(us, r.req, r.at)
    ELSE [response |-> r.req.query, suggestions |-> chatbot_suggestions(ls, r.req)]

\* C12: an entry written by nearby_listings, nearby_urgent_needs or
\* chatbot_query holds the result computed from the store in the step that
\* writes it and expires 120, 30 or 60 seconds after that step; no entry is
\* alive later, none is changed in between, a response served from the cache
\* is the value of such an entry, and a cache hit leaves every expiry as it was.
C12_EntriesExpireOnTime ==
    [][ /\ \A k \in ResultKeys(redis_data') :
               LET e == redis_data'[k]
               IN  /\ now' < Val(e.exp)
                   /\ Val(e.exp) <= now' + LifetimeOf(k)
                   /\ \/ k \in DOMAIN redis_data /\ redis_data[k] = e
                      \/ /\ RequestStep
                         /\ resp'.op \in CachedReads
                         /\ ~resp'.hit
                         /\ resp'.status = "ok"
                         /\ Val(e.exp) = now + LifetimeOf(k)
                         /\ e.val = resp'.body
                         /\ e.val = Computed(resp', listings', urgent_needs')
        /\ (RequestStep /\ resp'.op \in CachedReads /\ resp'.hit) =>
               /\ redis_data' = redis_data
               /\ KeyOf(resp') \in DOMAIN redis_data
               /\ redis_data[KeyOf(resp')].val = resp'.body ]_vars

\* a feed served from an entry written 20 seconds earlier, the entry kept
\* with the expiry it had
C12_Witness ==
    /\ resp.op = "nearby_listings"
    /\ resp.hit
    /\ resp.at = now
    /\ \E k \in KeysUnder(redis_data, ListingsPrefix) :
           /\ redis_data[k].val = resp.body
           /\ Val(redis_data[k].exp) = now + ListingsTTL - 20

\* ---------------------------------------------------------------------- C19
\* a read during whose scan the document store raises
StoreRaises ==
    \/ \E q \in NearbyQueries : nearby_listings(q, TRUE)
    \/ \E q \in NearbyQueries : nearby_urgent_needs(q, 0, TRUE)
    \/ \E payload \in ChatbotPayloads : chatbot_query(payload, TRUE)

\* C19: when the document store raises while nearby_listings,
\* nearby_urgent_needs or chatbot_query scans the candidates, the request
\* fails with the error (status 500), returns no result, partial or other,
\* and no cache entry is written, changed or removed; the stores are as
\* before, and the handler does not scan again.
C19_StoreFailureFatal ==
    [][ StoreRaises =>
            /\ resp'.status = "500"
            /\ resp'.body = <<>>
            /\ ~resp'.hit
            /\ redis_data' = redis_data
            /\ listings' = listings
            /\ urgent_needs' = urgent_needs ]_vars

\* the store raised on a miss of nearby_listings whose key holds an entry (an
\* empty feed, which counts as a miss), and the entry is still there
C19_Witness ==
    /\ resp.op = "nearby_listings"
    /\ resp.status = "500"
    /\ KeyOf(resp) \in DOMAIN redis_data
    /\ redis_data[KeyOf(resp)].val = <<>>

\* ---------------------------------------------------------------------- C20
\* the tokens that match the query: its keywords, and the whole normalised query
MatchingTokens(query) == Range(keywords(query)) \cup {query_lower(query)}

\* document d with token tok appended to its title
AppendToTitle(d, tok) == [d EXCEPT !.title = @ \o <<" ">> \o tok]

\* C20: appending to the title of a listing a token that matches the query
\* (description and category unchanged) yields a relevance score greater than
\* or equal to the score before; and of two listings of the store that differ
\* in this way, search_listings returns the longer-titled one whenever it
\* returns the other, with a relevance_score at least as high.
C20_ScoreMonotonicInTitle ==
    (resp.op = "search_listings" /\ query_lower(resp.req.query) # <<>>) =>
        \A i \in DOMAIN listings, tok \in MatchingTokens(resp.req.query) :
            LET d == listings[i]
            IN  /\ score(resp.req.query, AppendToTitle(d, tok)) >= score(resp.req.query, d)
                /\ \A j \in DOMAIN listings, x \in DOMAIN resp.body :
                       (/\ resp.body[x].id = d.id
                        /\ listings[j] = [AppendToTitle(d, tok) EXCEPT !.id = listings[j].id]) =>
                           \E y \in DOMAIN resp.body :
                               /\ resp.body[y].id = listings[j].id
                               /\ resp.body[y].relevance_score >= resp.body[x].relevance_score

\* "Goat" and "Goat milk", alike otherwise, both returned for a query with the
\* token "milk", the second with the higher score
C20_Witness ==
    /\ resp.op = "search_listings"
    /\ \E x, y \in DOMAIN resp.body :
           /\ DocOf(listings, resp.body[x].id).title = T_Goat
           /\ DocOf(listings, resp.body[y].id).title = T_GoatMilk
           /\ C_Milk \in MatchingTokens(resp.req.query)
           /\ resp.body[y].relevance_score > resp.body[x].relevance_score

\* ---------------------------------------------------------------------- C15
\* the active documents of the store that score on the query of request r and
\* are not known to lie outside the 5 km radius (no centre, no coordinates, or
\* a distance of at most 5000 m)
InRadiusMatches(store, r) ==
    {d \in Range(store) :
        /\ d.status = "active"
        /\ score(r.query, d) > 0
        /\ (CentreGiven(r) /\ ~IsNone(d.lat) /\ ~IsNone(d.lng)) =>
               haversine(Val(r.lat), Val(r.lng), Val(d.lat), Val(d.lng))
                   <= ChatbotRadiusKm * 1000}

\* C15: search_listings returns at most 5 results, each a scoring candidate
\* once; a matching in-radius candidate is left out only when five are
\* returned, and then its relevance score is not higher than that of any
\* returned one, nor does it rank before any returned one, wherever the
\* stream put it: the five are the first five of the full ranking.
C15_TopFiveOfFullRanking ==
    (resp.op = "search_listings" /\ query_lower(resp.req.query) # <<>>) =>
        /\ Len(resp.body) <= TopMatches
        /\ \A i, j \in DOMAIN resp.body : resp.body[i].id = resp.body[j].id => i = j
        /\ \A i \in DOMAIN resp.body :
               /\ HasDoc(listings, resp.body[i].id)
               /\ resp.body[i].relevance_score
                      = score(resp.req.query, DocOf(listings, resp.body[i].id))
               /\ resp.body[i].relevance_score > 0
        /\ \A d \in InRadiusMatches(listings, resp.req) :
               d.id \notin Ids(resp.body) =>
                   /\ Len(resp.body) = TopMatches
                   /\ \A i \in DOMAIN resp.body :
                          /\ score(resp.req.query, d) <= resp.body[i].relevance_score
                          /\ ~TupleGt(sort_key(search_item(resp.req.query, resp.req.lat,
                                                           resp.req.lng, d)),
                                      sort_key(resp.body[i]))

\* six candidates score, five are returned, and the one left out scores less
\* than each of them although the stream had it among its first five
C15_Witness ==
    /\ resp.op = "search_listings"
    /\ Len(resp.body) = TopMatches
    /\ \E k \in 1..TopMatches :
           /\ listings[k] \in InRadiusMatches(listings, resp.req)
           /\ listings[k].id \notin Ids(resp.body)
           /\ \A i \in DOMAIN resp.body :
                  score(resp.req.query, listings[k]) < resp.body[i].relevance_score

\* ---------------------------------------------------------------------- C13
HasCoordinates(d) == ~IsNone(d.lat) /\ ~IsNone(d.lng)

\* C13: when a centre is supplied, a document without "lat" or "lng" is in
\* the output of none of nearby_listings, nearby_urgent_needs and
\* search_listings, and the request succeeds whether or not the store holds
\* such a document.
C13_NoCoordinatesExcluded ==
    /\ resp.op \in {"nearby_listings", "nearby_urgent_needs"} =>
           /\ resp.status = "ok"
           /\ \A i \in DOMAIN resp.body : HasCoordinates(resp.body[i])
    /\ (resp.op = "search_listings" /\ CentreGiven(resp.req)) =>
           /\ resp.status = "ok"
           /\ \A i \in DOMAIN resp.body : HasCoordinates(DocOf(listings, resp.body[i].id))

\* ---------------------------------------------------------------------- C16
\* items is in descending order of created_at
NewestFirst(items) ==
    \A i, j \in DOMAIN items : i < j => items[i].created_at >= items[j].created_at

\* C16: the list nearby_listings and nearby_urgent_needs return, computed
\* from the store or served from the cache, is in descending order of
\* created_at and contains every active candidate with coordinates within the
\* radius (for urgent needs: that has not expired), however many there are.
C16_FeedsNewestFirstUntruncated ==
    /\ (resp.op = "nearby_listings" /\ resp.status = "ok") =>
           /\ NewestFirst(resp.body)
           /\ \A i \in DOMAIN listings :
                  (/\ listings[i].status = "active"
                   /\ HasCoordinates(listings[i])
                   /\ TrueDistance(resp.req, listings[i]) <= resp.req.radius_km) =>
                      listings[i].id \in Ids(resp.body)
    /\ (resp.op = "nearby_urgent_needs" /\ resp.status = "ok") =>
           /\ NewestFirst(resp.body)
           /\ \A i \in DOMAIN urgent_needs :
                  (/\ urgent_needs[i].status = "active"
                   /\ HasCoordinates(urgent_needs[i])
                   /\ TrueDistance(resp.req, urgent_needs[i]) <= resp.req.radius_km
                   /\ ~(urgent_needs[i].expires_at < resp.at)) =>
                      urgent_needs[i].id \in Ids(resp.body)

\* ---------------------------------------------------------------------- C17
\* the store with the documents at stream positions i and j exchanged
Exchanged(store, i, j) ==
    [k \in DOMAIN store |-> IF k = i THEN store[j] ELSE IF k = j THEN store[i] ELSE store[k]]

\* C17: the output of search_listings, and of the scans of nearby_listings and
\* nearby_urgent_needs, is the same, members and order, for every order in
\* which the store streams the same documents.
C17_StreamOrderIndependent ==
    /\ resp.op = "search_listings" =>
           \A i, j \in DOMAIN listings :
               search_listings(Exchanged(listings, i, j), resp.req.query, resp.req.lat,
                               resp.req.lng, ChatbotRadiusKm * 1000) = resp.body
    /\ (resp.op = "nearby_listings" /\ ~resp.hit /\ resp.status = "ok") =>
           \A i, j \in DOMAIN listings :
               listings_scan(Exchanged(listings, i, j), resp.req.lat, resp.req.lng,
                             resp.req.radius_km) = resp.body
    /\ (resp.op = "nearby_urgent_needs" /\ ~resp.hit /\ resp.status = "ok") =>
           \A i, j \in DOMAIN urgent_needs :
               newest_first(urgent_scan(active_docs(Exchanged(urgent_needs, i, j)),
                                        resp.req.lat, resp.req.lng, resp.req.radius_km,
                                        resp.at, 0).out) = resp.body

\* ---------------------------------------------------------------------- C14
\* C14: chatbot_query, computing its answer for a non-empty query, bypasses
\* the proximity filter exactly when the query supplies no centre.  Without
\* lat or lng every scoring candidate is returned (fewer than six here) with
\* distance_km unset.  With both, whatever their values, 0 included, every
\* returned candidate that has coordinates carries a distance, none is farther
\* than the 5 km cut-off (a distance that rounds to 5.0 km passing for 5 km),
\* and the cache key ends in the coordinates.
C14_NoCentreNoFilter ==
    (/\ resp.op = "chatbot_query"
     /\ ~resp.hit
     /\ resp.status = "ok"
     /\ query_lower(resp.req.query) # <<>>) =>
        LET out == resp.body.suggestions
        IN  IF ~CentreGiven(resp.req)
            THEN /\ \A i \in DOMAIN listings :
                        (listings[i].status = "active" /\ score(resp.req.query, listings[i]) > 0)
                            => listings[i].id \in Ids(out)
                 /\ \A i \in DOMAIN out : IsNone(out[i].distance_km)
                 /\ chatbot_cache_key(resp.req) = ChatbotPrefix \o query_lower(resp.req.query)
            ELSE /\ \A i \in DOMAIN out :
                        HasCoordinates(DocOf(listings, out[i].id)) =>
                            /\ ~IsNone(out[i].distance_km)
                            /\ Val(out[i].distance_km) * 100 <= ChatbotRadiusKm * 1000
                 /\ chatbot_cache_key(resp.req)
                        = ChatbotPrefix \o query_lower(resp.req.query) \o <<":">>
                              \o LatPart(Val(resp.req.lat)) \o LngPart(Val(resp.req.lng))

\* ---------------------------------------------------------------------- C18
\* the needs user uid created in the 3600 seconds that end at time t
CreatedInWindow(store, uid, t) ==
    {i \in DOMAIN store : store[i].user_uid = uid /\ store[i].created_at > t - UrgentRateWindow}

\* C18: with Redis answering, at most 5 create_urgent_need calls of one user
\* succeed in any interval of 3600 seconds (a sliding window: the interval
\* that ends now, at every instant), and a call rejected with 429 writes
\* nothing to the store and invalidates no cached feed.
C18_FivePerSlidingHour ==
    [][ RequestStep =>
            /\ \A uid \in Users :
                   Cardinality(CreatedInWindow(urgent_needs', uid, now')) <= UrgentRateLimit
            /\ (resp'.op = "create_urgent_need" /\ resp'.status = "429") =>
                   /\ urgent_needs' = urgent_needs
                   /\ KeysUnder(redis_data', UrgentPrefix) = KeysUnder(redis_data, UrgentPrefix) ]_vars

\* ---------------------------------------------------------------------- C27
\* the request that has just been answered was update_listing
UpdateAnswered == RequestStep /\ resp'.op = "update_listing"

\* the payload carries neither a status nor a description
CarriesNothing(payload) == IsNone(payload.status) /\ IsNone(payload.description)

\* C27: update_listing writes to the store only when the listing exists and
\* its owner_uid is the caller's uid, and then only to that listing; when the
\* listing does not exist (answer 404) or the caller is not the owner (answer
\* 403), or when the payload carries neither a status nor a description, the
\* store and every cache entry are left as they were.
C27_OnlyOwnerUpdates ==
    [][ UpdateAnswered =>
            LET r == resp'.req
                owned == /\ HasDoc(listings, r.listing_id)
                         /\ DocOf(listings, r.listing_id).owner_uid = r.uid
            IN  /\ listings' # listings =>
                       /\ owned
                       /\ \A i \in DOMAIN listings :
                              listings[i].id # r.listing_id => listings'[i] = listings[i]
                /\ ~HasDoc(listings, r.listing_id) <=> resp'.status = "404"
                /\ (HasDoc(listings, r.listing_id) /\ ~owned) <=> resp'.status = "403"
                /\ (~owned \/ CarriesNothing(r.payload)) =>
                       /\ listings' = listings
                       /\ redis_data' = redis_data
                       /\ redis_client' = redis_client ]_vars

\* a caller who is not the owner has been refused a change of a listing
\* while a result was cached
C27_Witness ==
    /\ resp.op = "update_listing"
    /\ resp.status = "403"
    /\ ~CarriesNothing(resp.req.payload)
    /\ HasDoc(listings, resp.req.listing_id)
    /\ KeysUnder(redis_data, ListingsPrefix) # {}

\* ---------------------------------------------------------------------- C28
\* the request that has just been answered was resolve_urgent_need
ResolveAnswered == RequestStep /\ resp'.op = "resolve_urgent_need"

\* C28: resolve_urgent_need sets the status to "resolved" only when the need
\* exists and its user_uid is the caller's uid; for a missing need it answers
\* "not_found" and for a caller who is not the owner "forbidden", and in both
\* cases the store is unchanged.
C28_OnlyOwnerResolves ==
    [][ ResolveAnswered =>
            LET r == resp'.req
                owned == /\ HasDoc(urgent_needs, r.urgent_id)
                         /\ DocOf(urgent_needs, r.urgent_id).user_uid = r.uid
            IN  /\ ~HasDoc(urgent_needs, r.urgent_id) <=> resp'.status = "not_found"
                /\ (HasDoc(urgent_needs, r.urgent_id) /\ ~owned) <=> resp'.status = "forbidden"
                /\ ~owned => urgent_needs' = urgent_needs
                /\ owned =>
                       /\ resp'.status = "ok"
                       /\ urgent_needs' = UpdateStatus(urgent_needs, {r.urgent_id}, "resolved")
                       /\ DocOf(urgent_needs', r.urgent_id).status = "resolved" ]_vars

\* a caller who is not the owner has been refused while the need is active
C28_Witness ==
    /\ resp.op = "resolve_urgent_need"
    /\ resp.status = "forbidden"
    /\ HasDoc(urgent_needs, resp.req.urgent_id)
    /\ DocOf(urgent_needs, resp.req.urgent_id).status = "active"

\* ---------------------------------------------------------------------- C26
\* a feed has just been answered while an entry written by an earlier miss
\* of the same query was still in the cache (not expired, not invalidated)
FeedRepeated ==
    /\ RequestStep
    /\ resp'.op \in {"nearby_listings", "nearby_urgent_needs"}
    /\ KeyOf(resp') \in DOMAIN redis_data

\* C26: after a nearby_listings or nearby_urgent_needs call has missed and
\* written its result, the same query sent before the entry expires, with no
\* invalidation in between and Redis reachable, is answered from the cache:
\* the store is not scanned and the list returned is the one cached, whatever
\* the result, the empty one included.
C26_RepeatedQueryFromCache ==
    [][ FeedRepeated =>
            /\ resp'.hit
            /\ resp'.status = "ok"
            /\ resp'.calls = <<>>
            /\ resp'.body = redis_data[KeyOf(resp')].val
            /\ UNCHANGED <<listings, urgent_needs, redis_data>> ]_vars

\* ---------------------------------------------------------------------- C25
\* C25: the only changes of the status of an urgent need are active ->
\* expired, made only when expires_at < now, and active -> resolved; a need
\* that is resolved is never set to expired and a need that is expired is
\* never set to resolved.
C25_StatusOnlyForward ==
    [][ \A id \in Ids(urgent_needs) :
            LET before == DocOf(urgent_needs, id)
                after == DocOf(urgent_needs', id)
            IN  /\ HasDoc(urgent_needs', id)
                /\ after.status # before.status =>
                       /\ before.status = "active"
                       /\ after.status \in {"expired", "resolved"}
                       /\ after.status = "expired" => before.expires_at < now ]_vars

\* ---------------------------------------------------------------------- C24
\* C24: every urgent need of a nearby_urgent_needs response, computed from
\* the store or served from the cache, has expires_at >= now at the time the
\* response is produced.
C24_NoExpiredNeedReturned ==
    (resp.op = "nearby_urgent_needs" /\ resp.status = "ok") =>
        \A i \in DOMAIN resp.body :
            DocOf(urgent_needs, resp.body[i].id).expires_at >= resp.at

ReactionsBy(collection, parent, uid) ==
    {i \in DOMAIN subdocs : IsReactionOf(subdocs[i], collection, parent) /\ subdocs[i].user_uid = uid}

\* C29: whatever the sequence or interleaving of add_listing_reaction and
\* add_urgent_reaction calls, the reactions of a listing or of an urgent need
\* hold at most one document per user_uid.
C29_OneReactionPerUser ==
    \A collection \in {"listings", "urgent_needs"}, parent \in 1..2, uid \in Users :
        Cardinality(ReactionsBy(collection, parent, uid)) <= 1

\* ---------------------------------------------------------------------- C23
\* the rate-limit counters in Redis
RateKeys(data) == KeysUnder(data, UrgentRatePrefix)

\* a request is between the r.incr and the r.expire of rate_limit on key k
ExpirePending(k) ==
    \E w \in Workers : /\ At(w, "create_urgent_need", "expire")
                       /\ urgent_rate_key(inflight[w].req.uid) = k

\* C23: a rate-limit counter that exists in Redis has an expiry, at most
\* window_seconds ahead, also after a failure or a concurrent request between
\* the increment and the expire call of rate_limit (the instants in which a
\* request is between the two calls are left aside).
C23_CountersAlwaysExpire ==
    \A k \in RateKeys(redis_data) :
        ~ExpirePending(k) =>
            /\ ~IsNone(redis_data[k].exp)
            /\ Val(redis_data[k].exp) <= now + UrgentRateWindow

\* ---------------------------------------------------------------------- C30
\* the counters of rate_limit, of the middleware and of create_urgent_need
AllRateKeys(data) == KeysUnder(data, RateLimitPrefix) \cup KeysUnder(data, UrgentRatePrefix)

\* a counter has been incremented in this step
Counted ==
    \E k \in AllRateKeys(redis_data') :
        k \notin DOMAIN redis_data \/ redis_data'[k].val > redis_data[k].val

\* C30: for every request whose path is not "/health", with Redis available,
\* a rate_limit check is made before the route does its work, by the
\* middleware or by the route itself: no route other than /health runs for a
\* request nothing has counted.
C30_EveryRequestRateLimited ==
    [][ (Pending /\ ~Pending' /\ resp.req.path # HealthPath /\ redis_up) =>
            resp.calls # <<>> \/ Counted ]_vars

\* ---------------------------------------------------------------------- C22
\* the "listings:" entries that differ from the result of their query on the
\* store as it is
StaleEntries ==
    {k \in KeysUnder(redis_data, ListingsPrefix) :
        \E q \in NearbyQueries :
            /\ k = listings_cache_key(q.lat, q.lng, q.radius_km)
            /\ redis_data[k].val # FreshListings(listings, q)}

\* a reader is about to cache a result that the store no longer gives
StaleInHand(w) ==
    /\ At(w, "nearby_listings", "set")
    /\ inflight[w].local # FreshListings(listings, inflight[w].req)

Consistent == StaleEntries = {} /\ \A w \in Workers : ~StaleInHand(w)

\* a nearby_listings request is answered in this step
NearbyAnswered ==
    /\ resp'.op = "nearby_listings"
    /\ \E w \in Workers :
           \/ At(w, "nearby_listings", "set") /\ inflight'[w].pc = "idle"
           \/ /\ inflight[w].pc = "idle" /\ inflight'[w].pc = "idle"
              /\ inflight'[w].n = inflight[w].n + 1

\* C22: with the listing routes interleaved call by call, once the store is no
\* longer written the cache becomes consistent and stays so: every stale
\* "listings:" entry is gone, no reader holds a stale result to cache, and
\* from then on, as long as the store is not written, every nearby_listings
\* response is the result computed from the store.
C22_EventuallyConsistent ==
    /\ [][ (Consistent /\ listings' = listings) =>
               /\ Consistent'
               /\ NearbyAnswered => resp'.body = FreshListings(listings', resp'.req) ]_vars
    /\ <>[][listings' = listings]_vars => <>[]Consistent

\* a reader that scanned the store before a write has cached its result after
\* the write's invalidation: the entry is stale and no write is in progress
C22_Witness ==
    /\ StaleEntries # {}
    /\ resp.op = "nearby_listings" /\ ~resp.hit
    /\ resp.body # FreshListings(listings, resp.req)
    /\ \A w \in Workers : inflight[w].op \notin {"create_listing", "update_listing"}

====
